---- MODULE Spec2Model ----
(***************************************************************************)
(* Authentication and account lockout of the MERN blog server:             *)
(* POST /api/auth/register, POST /api/auth/login, PUT /api/users/:id, the  *)
(* auth middleware and the JWT helpers of server/src/utils/auth.js.        *)
(* Time is counted in ticks of 30 minutes.                                 *)
(***************************************************************************)
EXTENDS Integers, Sequences, FiniteSets, TLC

VARIABLES
    users,      \* the users collection: _id -> document
    nextId,     \* the next _id the store hands out
    now,        \* Date.now(), in ticks
    env,        \* process.env (JWT_SECRET, JWT_REFRESH_SECRET, JWT_EXPIRE)
    held,       \* the session token the client keeps (last one it received)
    heldFrom,   \* where held comes from: its kind, the account and the time of issue
    res,        \* the response to the latest request
    last,       \* what the latest request was and what it met
    consec,     \* per account: wrong-secret failures in a row, and when the latest was
    replaced,   \* the token the latest request's session token took the place of
    posts,      \* the posts collection: _id -> document
    pending     \* the requests in flight: what each has read and where it stands

vars == <<users, nextId, now, env, held, heldFrom, res, last, consec, replaced, posts,
          pending>>

----------------------------------------------------------------------------
(* Bounds of the model *)

MaxTime == 5
MaxUsers == 2

----------------------------------------------------------------------------
(* Policy constants and configuration *)

\* lockout threshold (5 failed attempts)
MAX_LOGIN_ATTEMPTS == 5
\* lockout duration: 1 hour = 2 ticks
LOCK_TIME == 2
\* expiresIn '24h' = 48 ticks
JWT_EXPIRE_DEFAULT == 48
\* expiresIn '7d' = 336 ticks
REFRESH_EXPIRE == 336

FallbackSecret == "fallback-secret-key"
FallbackRefreshSecret == "fallback-refresh-secret"

\* an absent (undefined) timestamp or environment entry
Undefined == -1

----------------------------------------------------------------------------
(* Inputs *)

AdminEmail == "admin@x.com"
UserEmail == "real@x.com"
NoSuchEmail == "nonexistent@x.com"
BadEmail == "not-an-email"

Passwords == {"password123", "wrongsecret1"}
EmptyPassword == ""
EmptyEmail == ""

UpperUserEmail == "Real@X.com"

\* isEmail() of express-validator on the inputs of the model
isEmail(e) == e \in {AdminEmail, UserEmail, NoSuchEmail, UpperUserEmail, "disabled@x.com"}
\* a field the request body does not carry
Absent == "<absent>"
\* the validators read a field as a string, an absent one as the empty string
asString(v) == IF v = Absent THEN "" ELSE v
\* notEmpty()
notEmpty(s) == asString(s) # ""

\* a store operation of the request may fail: none, the query, or the write
Faults == {"none", "find", "save"}

----------------------------------------------------------------------------
(* Values *)

NoToken == [none |-> TRUE]
NoUser == [none |-> TRUE]
NoError == <<>>

\* e.message.includes(s): the message is a tuple of its parts
Includes(msg, s) == \E k \in 1..Len(msg) : msg[k] = s

Min(S) == CHOOSE x \in S : \A y \in S : x <= y

DbError == [name |-> "MongoError", message |-> <<"connection lost">>]
Err(msg) == [name |-> "Error", message |-> msg]

----------------------------------------------------------------------------
(* server/src/utils/auth.js and the jsonwebtoken library *)

\* bcrypt.hash(password, saltRounds) with the salt bcrypt drew: the digest carries
\* the cost and the salt
hashPassword(password, salt) == <<"$2a$12$", salt, password>>

\* mutant: the entered password is compared with the stored digest itself
comparePassword_Plain(password, hashedPassword) ==
    /\ Len(hashedPassword) = 3
    /\ <<password>> = hashedPassword

\* bcrypt.compare(password, hashedPassword)
comparePassword(password, hashedPassword) ==
    /\ Len(hashedPassword) = 3
    /\ hashPassword(password, hashedPassword[2]) = hashedPassword

\* the HMAC of a token's header and payload under key
Signature(key, payload, iat, exp) == <<"HS256", key, payload, iat, exp>>

\* jwt.sign(payload, key, {expiresIn}) at time t
jwtSign(payload, key, expiresIn, t) ==
    [payload |-> payload, iat |-> t, exp |-> t + expiresIn,
     sig |-> Signature(key, payload, t, t + expiresIn)]

\* a string that is no JWT
MalformedToken == [malformed |-> TRUE]

\* jwt.verify(token, key) at time t: the decoded payload, or the error thrown
jwtVerify(token, key, t) ==
    IF "sig" \notin DOMAIN token
       \/ token.sig # Signature(key, token.payload, token.iat, token.exp)
    THEN [ok |-> FALSE, name |-> "JsonWebTokenError", decoded |-> NoUser]
    ELSE IF t >= token.exp
    THEN [ok |-> FALSE, name |-> "TokenExpiredError", decoded |-> NoUser]
    ELSE [ok |-> TRUE, name |-> "",
          decoded |-> [claims |-> token.payload,
                       iat |-> token.iat, exp |-> token.exp]]

\* process.env.JWT_SECRET || 'fallback-secret-key'
JwtSecret(e) == IF e.JWT_SECRET # "" THEN e.JWT_SECRET ELSE FallbackSecret
\* process.env.JWT_EXPIRE || '24h'
JwtExpire(e) == IF e.JWT_EXPIRE # 0 THEN e.JWT_EXPIRE ELSE JWT_EXPIRE_DEFAULT
\* process.env.JWT_REFRESH_SECRET || 'fallback-refresh-secret'
JwtRefreshSecret(e) ==
    IF e.JWT_REFRESH_SECRET # "" THEN e.JWT_REFRESH_SECRET ELSE FallbackRefreshSecret

\* an ObjectId as the JSON of a payload carries it: its string
ObjectIdString(id) == ToString(id)

\* the payload generateToken builds
TokenPayload(user) ==
    [id |-> ObjectIdString(user._id), email |-> user.email, username |-> user.username]

\* mutant: the time of issue is a timestamp taken once, when the module was loaded
generateToken_StaleClock(user, e, t) ==
    jwtSign(TokenPayload(user), JwtSecret(e), JwtExpire(e), 0)

generateToken(user, e, t) ==
    jwtSign(TokenPayload(user), JwtSecret(e), JwtExpire(e), t)

\* mutant: jwt.decode() in place of jwt.verify(): no signature, no expiry check
verifyToken_DecodeOnly(token, e, t) ==
    IF "sig" \notin DOMAIN token
    THEN [ok |-> FALSE, name |-> "JsonWebTokenError", decoded |-> NoUser]
    ELSE [ok |-> TRUE, name |-> "",
          decoded |-> [claims |-> token.payload, iat |-> token.iat, exp |-> token.exp]]

verifyToken(token, e, t) == jwtVerify(token, JwtSecret(e), t)

generateRefreshToken(user, e, t) ==
    jwtSign([id |-> ObjectIdString(user._id)], JwtRefreshSecret(e), REFRESH_EXPIRE, t)

----------------------------------------------------------------------------
(* The User model: schema defaults, isLocked, matchPassword,               *)
(* incLoginAttempts, findByCredentials                                     *)

\* User.create({username, email, password}): the defaults of the schema
NewUser(id, username, email, password, salt, role) ==
    [_id |-> id, username |-> username, email |-> email,
     password |-> hashPassword(password, salt),
     firstName |-> "", lastName |-> "", bio |-> "", avatar |-> "",
     role |-> role, isActive |-> TRUE,
     loginAttempts |-> 0, lockUntil |-> Undefined, lastLogin |-> Undefined]

\* mutant: a lock never runs out
isLocked_IgnoresTime(u, t) == u.lockUntil # Undefined

\* the isLocked virtual: lockUntil is set and lies in the future
isLocked(u, t) == u.lockUntil # Undefined /\ u.lockUntil > t

\* user.matchPassword(enteredPassword)
matchPassword(u, enteredPassword) == comparePassword(enteredPassword, u.password)

\* mutant: the threshold is tested on the count before the increment
incLoginAttempts_OffByOne(u, t) ==
    [u EXCEPT !.loginAttempts = @ + 1,
              !.lockUntil = IF u.loginAttempts >= MAX_LOGIN_ATTEMPTS
                            THEN t + LOCK_TIME ELSE @]

\* mutant: a failed attempt on an account whose lock has run out starts the
\* count again at 1 and removes the lock
incLoginAttempts_RestartAfterExpiry(u, t) ==
    IF u.lockUntil # Undefined /\ u.lockUntil <= t
    THEN [u EXCEPT !.loginAttempts = 1, !.lockUntil = Undefined]
    ELSE [u EXCEPT !.loginAttempts = @ + 1,
                   !.lockUntil = IF u.loginAttempts + 1 >= MAX_LOGIN_ATTEMPTS
                                 THEN t + LOCK_TIME ELSE @]

\* mutant: the lock is set only by the attempt that makes the count exactly 5
incLoginAttempts_ExactThreshold(u, t) ==
    LET n == u.loginAttempts + 1 IN
    [u EXCEPT !.loginAttempts = n,
              !.lockUntil = IF n = MAX_LOGIN_ATTEMPTS THEN t + LOCK_TIME ELSE @]

\* the document after a failed attempt: one more attempt, and the lock when the
\* count reaches the threshold
incLoginAttempts(u, t) ==
    LET n == u.loginAttempts + 1 IN
    [u EXCEPT !.loginAttempts = n,
              !.lockUntil = IF n >= MAX_LOGIN_ATTEMPTS THEN t + LOCK_TIME ELSE @]

\* the document after a successful authentication
resetLoginAttempts(u, t) ==
    [u EXCEPT !.loginAttempts = 0, !.lockUntil = Undefined, !.lastLogin = t]

\* User.findOne({email}): the _id of the account, 0 when there is none
findIdByEmail(us, email) ==
    LET S == {i \in DOMAIN us : us[i].email = email} IN
    IF S = {} THEN 0 ELSE Min(S)

LockedMessage(u, t) == <<"Account temporarily locked", "Try again in", u.lockUntil - t>>

\* what findByCredentials hands back: the error it threw (of the given kind) or
\* the user it returned, the store it leaves, and whether the secret was compared
\* against the stored hash
Thrown(kind, error, us, compared) ==
    [threw |-> TRUE, kind |-> kind, error |-> error, user |-> NoUser, users |-> us,
     compared |-> compared]
Returned(user, us) ==
    [threw |-> FALSE, kind |-> "ok", error |-> Err(NoError), user |-> user, users |-> us,
     compared |-> TRUE]

\* mutant: the secret is compared, and a mismatch counted, before the lock is looked at
findByCredentials_CompareFirst(us, email, password, fault, t) ==
    LET id == findIdByEmail(us, email) IN
    IF fault = "find" THEN Thrown("StoreError", DbError, us, FALSE)
    ELSE IF id = 0
    THEN Thrown("InvalidCredentials", Err(<<"Invalid credentials">>), us, FALSE)
    ELSE IF ~matchPassword(us[id], password)
    THEN IF fault = "save" THEN Thrown("StoreError", DbError, us, TRUE)
         ELSE Thrown("InvalidCredentials", Err(<<"Invalid credentials">>),
                     [us EXCEPT ![id] = incLoginAttempts(@, t)], TRUE)
    ELSE IF isLocked(us[id], t)
    THEN Thrown("AccountLocked", Err(LockedMessage(us[id], t)), us, TRUE)
    ELSE IF ~us[id].isActive
    THEN Thrown("AccountInactive", Err(<<"Account is deactivated">>), us, TRUE)
    ELSE IF fault = "save" THEN Thrown("StoreError", DbError, us, TRUE)
    ELSE Returned(resetLoginAttempts(us[id], t),
                  [us EXCEPT ![id] = resetLoginAttempts(@, t)])

\* mutant: the disabled flag is not looked at
findByCredentials_NoActiveCheck(us, email, password, fault, t) ==
    LET id == findIdByEmail(us, email) IN
    IF fault = "find" THEN Thrown("StoreError", DbError, us, FALSE)
    ELSE IF id = 0
    THEN Thrown("InvalidCredentials", Err(<<"Invalid credentials">>), us, FALSE)
    ELSE IF isLocked(us[id], t)
    THEN Thrown("AccountLocked", Err(LockedMessage(us[id], t)), us, FALSE)
    ELSE IF ~matchPassword(us[id], password)
    THEN IF fault = "save" THEN Thrown("StoreError", DbError, us, TRUE)
         ELSE Thrown("InvalidCredentials", Err(<<"Invalid credentials">>),
                     [us EXCEPT ![id] = incLoginAttempts(@, t)], TRUE)
    ELSE IF fault = "save" THEN Thrown("StoreError", DbError, us, TRUE)
    ELSE Returned(resetLoginAttempts(us[id], t),
                  [us EXCEPT ![id] = resetLoginAttempts(@, t)])

\* User.findByCredentials(email, password) on store us at time t
findByCredentials(us, email, password, fault, t) ==
    LET id == findIdByEmail(us, email) IN
    IF fault = "find" THEN Thrown("StoreError", DbError, us, FALSE)
    ELSE IF id = 0
    THEN Thrown("InvalidCredentials", Err(<<"Invalid credentials">>), us, FALSE)
    ELSE IF isLocked(us[id], t)
    THEN Thrown("AccountLocked", Err(LockedMessage(us[id], t)), us, FALSE)
    ELSE IF ~us[id].isActive
    THEN Thrown("AccountInactive", Err(<<"Account is deactivated">>), us, FALSE)
    ELSE IF ~matchPassword(us[id], password)
    THEN IF fault = "save" THEN Thrown("StoreError", DbError, us, TRUE)
         ELSE Thrown("InvalidCredentials", Err(<<"Invalid credentials">>),
                     [us EXCEPT ![id] = incLoginAttempts(@, t)], TRUE)
    ELSE IF fault = "save" THEN Thrown("StoreError", DbError, us, TRUE)
    ELSE Returned(resetLoginAttempts(us[id], t),
                  [us EXCEPT ![id] = resetLoginAttempts(@, t)])

----------------------------------------------------------------------------
(* Responses *)

Response(status, error, user, token, refreshToken) ==
    [status |-> status, error |-> error, user |-> user,
     token |-> token, refreshToken |-> refreshToken]

Failure(status, error) == Response(status, error, NoUser, NoToken, NoToken)

\* handleValidationErrors: 400 when a validator of the chain failed
ValidationFailed == Failure(400, <<"Validation failed">>)

\* normalizeEmail() of express-validator on the inputs of the model
normalizeEmail(e) == IF e = UpperUserEmail THEN UserEmail ELSE e

----------------------------------------------------------------------------
(* server/src/routes/auth.js: POST /login *)

\* mutant: the chain has no validator for the password
loginValidation_EmailOnly(email, password) == isEmail(email)

loginValidation(email, password) ==
    /\ isEmail(email)
    /\ notEmpty(password)

\* the user object of the login response
LoginUserView(u) ==
    [id |-> u._id, username |-> u.username, email |-> u.email,
     firstName |-> u.firstName, lastName |-> u.lastName, role |-> u.role,
     lastLogin |-> u.lastLogin]

\* mutant: the lock message is tested with === instead of includes()
LoginCatch_ExactLocked(error) ==
    IF error.message = <<"Invalid credentials">>
       \/ error.message = <<"Account temporarily locked">>
    THEN Failure(401, error.message)
    ELSE Failure(500, <<"Server error during login">>)

\* mutant: credential errors are answered 400
LoginCatch_Status400(error) ==
    IF error.message = <<"Invalid credentials">>
    THEN Failure(400, error.message)
    ELSE IF Includes(error.message, "Account temporarily locked")
    THEN Failure(401, error.message)
    ELSE Failure(500, <<"Server error during login">>)

\* mutant: a locked account is answered 423 Locked
LoginCatch_Locked423(error) ==
    IF error.message = <<"Invalid credentials">>
    THEN Failure(401, error.message)
    ELSE IF Includes(error.message, "Account temporarily locked")
    THEN Failure(423, error.message)
    ELSE Failure(500, <<"Server error during login">>)

\* the catch block of POST /login
LoginCatch(error) ==
    IF error.message = <<"Invalid credentials">>
       \/ Includes(error.message, "Account temporarily locked")
    THEN Failure(401, error.message)
    ELSE Failure(500, <<"Server error during login">>)

\* mutant: the refresh token is left out of the response
LoginSuccess_NoRefreshToken(user, e, t) ==
    Response(200, NoError,
             [id |-> user._id, username |-> user.username, email |-> user.email,
              firstName |-> user.firstName, lastName |-> user.lastName,
              role |-> user.role, lastLogin |-> user.lastLogin],
             generateToken(user, e, t), NoToken)

\* the try block of POST /login after findByCredentials returned user
LoginSuccess(user, e, t) ==
    Response(200, NoError, LoginUserView(user),
             generateToken(user, e, t), generateRefreshToken(user, e, t))

\* mutant: findByCredentials is not awaited, so the tokens are made from the
\* pending promise whatever the authentication does
LoginResponse_NoAwait(us, email, password, fault, e, t) ==
    LoginSuccess([_id |-> 0, username |-> "", email |-> "", firstName |-> "",
                  lastName |-> "", role |-> "", lastLogin |-> Undefined], e, t)

\* the handler of POST /login behind the validators: the response it sends
LoginResponse(us, email, password, fault, e, t) ==
    LET r == findByCredentials(us, email, password, fault, t) IN
    IF r.threw THEN LoginCatch(r.error) ELSE LoginSuccess(r.user, e, t)

\* the record kept of the latest request: the account it loaded (0: none) as it
\* was before the request, the failures in a row of that account before it, whether
\* the secret was compared, and the outcome
Request(op, email, password, fault, id, pre, preStreak, compared, outcome) ==
    [op |-> op, email |-> email, password |-> password, fault |-> fault, id |-> id,
     pre |-> pre, preStreak |-> preStreak, compared |-> compared, outcome |-> outcome]

NoStreak == [n |-> 0, at |-> Undefined]

\* where a held token comes from
Provenance(kind, id, at) == [kind |-> kind, id |-> id, at |-> at]
Session(id, at) == Provenance("session", id, at)
NoProvenance == Provenance("none", 0, Undefined)

\* the token a newly issued session token took the place of, and where it came from
Replaced(token, from) == [token |-> token, from |-> from]
NoReplaced == Replaced(NoToken, NoProvenance)

Login(email, password, fault) ==
    LET em == normalizeEmail(email)
        id == IF fault = "find" THEN 0 ELSE findIdByEmail(users, em)
        r == findByCredentials(users, em, password, fault, now)
    IN
    IF ~loginValidation(email, password)
    THEN /\ res' = ValidationFailed
         /\ last' = Request("login", email, password, fault, 0, NoUser, NoStreak, FALSE,
                            "Validation")
         /\ replaced' = NoReplaced
         /\ UNCHANGED <<users, nextId, now, env, held, heldFrom, consec, posts, pending>>
    ELSE /\ users' = r.users
         /\ res' = LoginResponse(users, em, password, fault, env, now)
         /\ held' = IF res'.token # NoToken THEN res'.token ELSE held
         /\ heldFrom' = IF res'.token # NoToken THEN Session(id, now) ELSE heldFrom
         /\ replaced' = IF res'.token # NoToken THEN Replaced(held, heldFrom)
                        ELSE NoReplaced
         /\ last' = Request("login", email, password, fault, id,
                            IF id = 0 THEN NoUser ELSE users[id],
                            IF id = 0 THEN NoStreak ELSE consec[id],
                            r.compared, r.kind)
         /\ consec' = IF id = 0 THEN consec
                      ELSE IF r.kind = "ok" THEN [consec EXCEPT ![id] = NoStreak]
                      ELSE IF r.kind = "InvalidCredentials"
                      THEN [consec EXCEPT ![id] = [n |-> @.n + 1, at |-> now]]
                      ELSE consec
         /\ UNCHANGED <<nextId, now, env, posts, pending>>

----------------------------------------------------------------------------
(* server/src/routes/auth.js: POST /register *)

RegisterUsernames == {"realuser", "admin"}
RegisterEmails == {UserEmail, AdminEmail}
RegisterPasswords == {"password123", "weak"}

\* registerValidation on the inputs of the model: the username is 3..30 word
\* characters, the email is one, the password has 6 characters, a letter and a digit
registerValidation(username, email, password) ==
    /\ username \in RegisterUsernames
    /\ isEmail(email)
    /\ password \in {"password123", "wrongsecret1"}

\* mutant: the lookup asks for the email only
findIdByEmailOrUsername_EmailOnly(us, email, username) ==
    LET S == {i \in DOMAIN us : us[i].email = email} IN
    IF S = {} THEN 0 ELSE Min(S)

\* User.findOne({$or: [{email}, {username}]}): the _id found, 0 when none
findIdByEmailOrUsername(us, email, username) ==
    LET S == {i \in DOMAIN us : us[i].email = email \/ us[i].username = username} IN
    IF S = {} THEN 0 ELSE Min(S)

RegisterUserView(u, t) ==
    [id |-> u._id, username |-> u.username, email |-> u.email,
     firstName |-> u.firstName, lastName |-> u.lastName, role |-> u.role,
     createdAt |-> t]

Salts == {"salt1", "salt2"}

\* the document keys the unique indexes of the collection refuse: one that has the
\* email or the username of a stored document
DuplicateKey(us, username, email) ==
    \E i \in DOMAIN us : us[i].email = email \/ us[i].username = username

\* mutant: the collection has no unique index
UserCreate_NoUniqueIndex(us, id, username, email, password, salt) ==
    [threw |-> FALSE,
     users |-> us @@ (id :> NewUser(id, username, email, password, salt, "user"))]

\* User.create({username, email, password}): the store with the new document, or
\* the duplicate key error (E11000) of the unique indexes
UserCreate(us, id, username, email, password, salt) ==
    IF DuplicateKey(us, username, email)
    THEN [threw |-> TRUE, users |-> us]
    ELSE [threw |-> FALSE,
          users |-> us @@ (id :> NewUser(id, username, email, password, salt, "user"))]

RegistrationFailed == Failure(500, <<"Server error during registration">>)

AlreadyExists(field) == Failure(400, <<"User with this", field, "already exists">>)

\* the handler of POST /register up to the answer of User.findOne: the response
\* it sends, or that it goes on to create the account
RegisterCheckResult(us, username, email, password, fault) ==
    LET em == normalizeEmail(email)
        existing == findIdByEmailOrUsername(us, em, username)
    IN
    IF ~registerValidation(username, email, password)
    THEN [go |-> FALSE, res |-> ValidationFailed]
    ELSE IF fault = "find" THEN [go |-> FALSE, res |-> RegistrationFailed]
    ELSE IF existing # 0
    THEN [go |-> FALSE,
          res |-> AlreadyExists(IF us[existing].email = em THEN "email" ELSE "username")]
    ELSE [go |-> TRUE, res |-> Failure(0, NoError)]

\* the handler of POST /register from User.create on, for a request whose email
\* the validators have normalised: the response and the store it leaves
RegisterCreateResult(us, id, username, em, password, salt, fault, e, t) ==
    LET c == UserCreate(us, id, username, em, password, salt) IN
    IF fault = "save" \/ c.threw
    THEN [created |-> FALSE, res |-> RegistrationFailed, users |-> us]
    ELSE [created |-> TRUE,
          res |-> Response(201, NoError, RegisterUserView(c.users[id], t),
                           generateToken(c.users[id], e, t),
                           generateRefreshToken(c.users[id], e, t)),
          users |-> c.users]

\* the record kept of the latest registration request: id is the _id of the
\* account it created (0: none)
RegisterRequest(op, username, email, password, fault, id) ==
    [op |-> op, username |-> username, email |-> email, password |-> password,
     fault |-> fault, id |-> id]

\* POST /register, run from the request to the response without another request
\* in between
Register(username, email, password, salt, fault) ==
    LET chk == RegisterCheckResult(users, username, email, password, fault)
        crt == RegisterCreateResult(users, nextId, username, normalizeEmail(email),
                                    password, salt, fault, env, now)
    IN
    /\ UNCHANGED <<now, env, consec, posts, pending>>
    /\ IF ~chk.go
       THEN /\ res' = chk.res
            /\ last' = RegisterRequest("register", username, email, password, fault, 0)
            /\ replaced' = NoReplaced
            /\ UNCHANGED <<users, nextId, held, heldFrom>>
       ELSE /\ nextId <= MaxUsers
            /\ res' = crt.res
            /\ users' = crt.users
            /\ nextId' = IF crt.created THEN nextId + 1 ELSE nextId
            /\ last' = RegisterRequest("register", username, email, password, fault,
                                       IF crt.created THEN nextId ELSE 0)
            /\ held' = IF crt.created THEN crt.res.token ELSE held
            /\ heldFrom' = IF crt.created THEN Session(nextId, now) ELSE heldFrom
            /\ replaced' = IF crt.created THEN Replaced(held, heldFrom) ELSE NoReplaced

\* POST /register of client c up to the answer of User.findOne; a request that
\* found no account is in flight until its User.create
RegisterCheck(c, username, email, password, salt) ==
    LET chk == RegisterCheckResult(users, username, email, password, "none") IN
    /\ \A r \in pending : r.client # c
    /\ pending' = IF chk.go
                  THEN pending \cup {[client |-> c, op |-> "register",
                                      username |-> username,
                                      email |-> normalizeEmail(email),
                                      password |-> password, salt |-> salt]}
                  ELSE pending
    /\ res' = chk.res
    /\ last' = RegisterRequest("registerCheck", username, email, password, "none", 0)
    /\ replaced' = NoReplaced
    /\ UNCHANGED <<users, nextId, now, env, held, heldFrom, consec, posts>>

\* the rest of a POST /register in flight: User.create and the response
RegisterCreate(r, fault) ==
    LET crt == RegisterCreateResult(users, nextId, r.username, r.email, r.password,
                                    r.salt, fault, env, now)
    IN
    /\ r \in pending /\ r.op = "register"
    /\ nextId <= MaxUsers
    /\ pending' = pending \ {r}
    /\ res' = crt.res
    /\ users' = crt.users
    /\ nextId' = IF crt.created THEN nextId + 1 ELSE nextId
    /\ last' = RegisterRequest("registerCreate", r.username, r.email, r.password, fault,
                               IF crt.created THEN nextId ELSE 0)
    /\ held' = IF crt.created THEN crt.res.token ELSE held
    /\ heldFrom' = IF crt.created THEN Session(nextId, now) ELSE heldFrom
    /\ replaced' = IF crt.created THEN Replaced(held, heldFrom) ELSE NoReplaced
    /\ UNCHANGED <<now, env, consec, posts>>

----------------------------------------------------------------------------
(* The auth middleware *)

\* User.findById(id) for the id string of a token: the _id, 0 when there is none
findById(us, idString) ==
    LET S == {i \in DOMAIN us : ObjectIdString(i) = idString} IN
    IF S = {} THEN 0 ELSE Min(S)

\* the Authorization header of a request: none, `Bearer <token>`, or something else
NoHeader == [none |-> TRUE]
Bearer(token) == [scheme |-> "Bearer ", credentials |-> token]
InvalidFormat == [scheme |-> "invalid-format", credentials |-> NoToken]
\* the header a client sends that holds token (none when it holds no token)
HeaderOf(token) == IF token = NoToken THEN NoHeader ELSE Bearer(token)

\* authHeader && authHeader.startsWith('Bearer ')
startsWithBearer(authHeader) == authHeader # NoHeader /\ authHeader.scheme = "Bearer "

\* .select('-password')
WithoutPassword(u) == [f \in DOMAIN u \ {"password"} |-> u[f]]

\* what a middleware did: called next() (ok, with req.user = user) or answered
Passed(user) == [ok |-> TRUE, status |-> 200, error |-> NoError, user |-> user]
Answered(status, error) == [ok |-> FALSE, status |-> status, error |-> error, user |-> NoUser]

\* mutant: the account of the token is not looked up again
auth_NoUserLookup(authHeader, us, e, t, fault) ==
    LET v == jwtVerify(authHeader.credentials, JwtSecret(e), t) IN
    IF ~startsWithBearer(authHeader)
    THEN Answered(401, <<"No token, authorization denied">>)
    ELSE IF ~v.ok \/ fault = "auth"
    THEN Answered(401, <<"Token is not valid">>)
    ELSE Passed([_id |-> 0, role |-> "user", username |-> v.decoded.claims.username])

\* auth(req, res, next) for a request with the given Authorization header; the
\* query of the middleware fails when fault is "auth"
auth(authHeader, us, e, t, fault) ==
    LET v == jwtVerify(authHeader.credentials, JwtSecret(e), t) IN
    IF ~startsWithBearer(authHeader)
    THEN Answered(401, <<"No token, authorization denied">>)
    ELSE IF ~v.ok \/ fault = "auth"
    THEN Answered(401, <<"Token is not valid">>)
    ELSE IF findById(us, v.decoded.claims.id) = 0
    THEN Answered(401, <<"User not found">>)
    ELSE Passed(WithoutPassword(us[findById(us, v.decoded.claims.id)]))

\* optionalAuth(req, res, next): next() is always called, with req.user when the
\* header carries a token that verifies for a stored account
optionalAuth(authHeader, us, e, t, fault) ==
    LET v == jwtVerify(authHeader.credentials, JwtSecret(e), t) IN
    IF ~startsWithBearer(authHeader) THEN Passed(NoUser)
    ELSE IF ~v.ok \/ fault = "auth" THEN Passed(NoUser)
    ELSE IF findById(us, v.decoded.claims.id) = 0 THEN Passed(NoUser)
    ELSE Passed(WithoutPassword(us[findById(us, v.decoded.claims.id)]))

\* mutant: a request without req.user is sent on as if it had a permitted role
authorize_SkipsAnonymous(roles, reqUser) ==
    IF reqUser = NoUser THEN Passed(reqUser)
    ELSE IF reqUser.role \notin roles
    THEN Answered(403, <<"Access forbidden - insufficient permissions">>)
    ELSE Passed(reqUser)

\* authorize(...roles)(req, res, next) with req.user = reqUser
authorize(roles, reqUser) ==
    IF reqUser = NoUser THEN Answered(401, <<"Authentication required">>)
    ELSE IF reqUser.role \notin roles
    THEN Answered(403, <<"Access forbidden - insufficient permissions">>)
    ELSE Passed(reqUser)

----------------------------------------------------------------------------
(* Routes behind the middleware *)

\* a route mounted as app.get(path, authn, authorize(...roles), handler); authn is
\* "auth" or "optionalAuth", and authorize is mounted when authz holds
Route(path, authn, authz, roles) ==
    [path |-> path, authn |-> authn, authz |-> authz, roles |-> roles]

\* the middleware of a route run on a request: which layer answered it, or that
\* the handler was invoked, and with which req.user
Guards(handler, by, status, error, user) ==
    [handler |-> handler, by |-> by, status |-> status, error |-> error, user |-> user]

RunGuards(route, authHeader, us, e, t, fault) ==
    LET a == IF route.authn = "auth" THEN auth(authHeader, us, e, t, fault)
             ELSE optionalAuth(authHeader, us, e, t, fault)
        z == authorize(route.roles, a.user)
    IN  IF ~a.ok THEN Guards(FALSE, "auth", a.status, a.error, NoUser)
        ELSE IF route.authz /\ ~z.ok
        THEN Guards(FALSE, "authorize", z.status, z.error, a.user)
        ELSE Guards(TRUE, "handler", 200, NoError, a.user)

\* the record kept of the latest request to a guarded route
GuardedRequest(route, authHeader, fault, g) ==
    [op |-> "guarded", route |-> route, header |-> authHeader, fault |-> fault,
     handler |-> g.handler, by |-> g.by, reqUser |-> g.user]

\* a request to a route whose handler answers with what it finds in req.user
Guarded(route, authHeader, fault) ==
    LET g == RunGuards(route, authHeader, users, env, now, fault) IN
    /\ res' = IF g.handler
              THEN Response(200, NoError,
                            IF g.user = NoUser THEN NoUser
                            ELSE [username |-> g.user.username],
                            NoToken, NoToken)
              ELSE Failure(g.status, g.error)
    /\ last' = GuardedRequest(route, authHeader, fault, g)
    /\ replaced' = NoReplaced
    /\ UNCHANGED <<users, nextId, now, env, held, heldFrom, consec, posts, pending>>

----------------------------------------------------------------------------
(* server/src/routes/auth.js: POST /logout *)

\* the response of POST /logout: behind auth, the handler logs the address of
\* req.user and answers; it keeps no list of the tokens that were logged out
LogoutResult(authHeader, us, e, t, fault) ==
    LET a == auth(authHeader, us, e, t, fault) IN
    IF ~a.ok THEN Failure(a.status, a.error)
    ELSE Response(200, NoError, NoUser, NoToken, NoToken)

\* the record kept of the latest request to POST /logout
LogoutRequest(authHeader, fault) == [op |-> "logout", header |-> authHeader, fault |-> fault]

Logout(authHeader, fault) ==
    /\ res' = LogoutResult(authHeader, users, env, now, fault)
    /\ last' = LogoutRequest(authHeader, fault)
    /\ replaced' = NoReplaced
    /\ UNCHANGED <<users, nextId, now, env, held, heldFrom, consec, posts, pending>>

----------------------------------------------------------------------------
(* server/src/routes/auth.js: POST /change-password *)

NewPasswords == {"password123", "newpassword456", "weak"}

\* the validators of the route: currentPassword is not empty, newPassword has 6
\* characters, a letter and a digit
changePasswordValidation(currentPassword, newPassword) ==
    /\ notEmpty(currentPassword)
    /\ newPassword \in {"password123", "wrongsecret1", "newpassword456"}

\* user.password = newPassword; user.save(): the hook of the schema stores the hash
SetPassword(u, newPassword, salt) == [u EXCEPT !.password = hashPassword(newPassword, salt)]

\* mutant: the current password is not checked
ChangePasswordResult_NoCurrentCheck(us, token, currentPassword, newPassword, salt, e, t, fault) ==
    LET a == auth(HeaderOf(token), us, e, t, fault) IN
    IF ~a.ok THEN [res |-> Failure(a.status, a.error), users |-> us]
    ELSE IF ~changePasswordValidation(currentPassword, newPassword)
    THEN [res |-> ValidationFailed, users |-> us]
    ELSE IF fault \in {"find", "save"}
    THEN [res |-> Failure(500, <<"Server error changing password">>), users |-> us]
    ELSE [res |-> Response(200, NoError, NoUser, NoToken, NoToken),
          users |-> [us EXCEPT ![a.user._id] = SetPassword(@, newPassword, salt)]]

\* the response of POST /change-password and the store it leaves
ChangePasswordResult(us, token, currentPassword, newPassword, salt, e, t, fault) ==
    LET a == auth(HeaderOf(token), us, e, t, fault) IN
    IF ~a.ok THEN [res |-> Failure(a.status, a.error), users |-> us]
    ELSE IF ~changePasswordValidation(currentPassword, newPassword)
    THEN [res |-> ValidationFailed, users |-> us]
    ELSE IF fault = "find"
    THEN [res |-> Failure(500, <<"Server error changing password">>), users |-> us]
    ELSE IF ~matchPassword(us[a.user._id], currentPassword)
    THEN [res |-> Failure(400, <<"Current password is incorrect">>), users |-> us]
    ELSE IF fault = "save"
    THEN [res |-> Failure(500, <<"Server error changing password">>), users |-> us]
    ELSE [res |-> Response(200, NoError, NoUser, NoToken, NoToken),
          users |-> [us EXCEPT ![a.user._id] = SetPassword(@, newPassword, salt)]]

\* the record kept of the latest POST /change-password: the account the token
\* stands for (0: the middleware refused the request) as it was before
ChangePasswordRequest(id, pre, currentPassword, newPassword, fault) ==
    [op |-> "changePassword", id |-> id, pre |-> pre,
     currentPassword |-> currentPassword, newPassword |-> newPassword, fault |-> fault]

ChangePassword(currentPassword, newPassword, salt, fault) ==
    LET a == auth(HeaderOf(held), users, env, now, fault)
        r == ChangePasswordResult(users, held, currentPassword, newPassword, salt,
                                  env, now, fault)
    IN
    /\ users' = r.users
    /\ res' = r.res
    /\ last' = IF a.ok
               THEN ChangePasswordRequest(a.user._id, users[a.user._id],
                                          currentPassword, newPassword, fault)
               ELSE ChangePasswordRequest(0, NoUser, currentPassword, newPassword, fault)
    /\ replaced' = NoReplaced
    /\ UNCHANGED <<nextId, now, env, held, heldFrom, consec, posts, pending>>

----------------------------------------------------------------------------
(* server/src/routes/users.js: PUT /api/users/:id *)

Roles == {"user", "admin", "moderator"}

Has(body, f) == f \in DOMAIN body

\* the validators of the route on the request body
updateValidation(body) ==
    /\ Has(body, "role") => body.role \in Roles
    /\ Has(body, "isActive") => body.isActive \in BOOLEAN

\* the assignments of the handler to the loaded document
ApplyUpdate(u, body, isAdmin) ==
    LET u1 == IF Has(body, "firstName") THEN [u EXCEPT !.firstName = body.firstName] ELSE u
        u2 == IF Has(body, "lastName") THEN [u1 EXCEPT !.lastName = body.lastName] ELSE u1
        u3 == IF Has(body, "bio") THEN [u2 EXCEPT !.bio = body.bio] ELSE u2
        u4 == IF Has(body, "avatar") THEN [u3 EXCEPT !.avatar = body.avatar] ELSE u3
        u5 == IF isAdmin /\ Has(body, "role") THEN [u4 EXCEPT !.role = body.role] ELSE u4
    IN  IF isAdmin /\ Has(body, "isActive") THEN [u5 EXCEPT !.isActive = body.isActive]
        ELSE u5

\* mutant: role and isActive are assigned for every requester who may update
UpdateUserResult_NoAdminCheck(us, token, id, body, e, t, fault) ==
    LET a == auth(HeaderOf(token), us, e, t, fault)
        isOwnProfile == id = a.user._id
        isAdmin == a.user.role = "admin"
    IN
    IF ~a.ok THEN [res |-> Failure(a.status, a.error), users |-> us]
    ELSE IF ~updateValidation(body) THEN [res |-> ValidationFailed, users |-> us]
    ELSE IF fault = "find"
    THEN [res |-> Failure(500, <<"Server error updating user">>), users |-> us]
    ELSE IF id \notin DOMAIN us
    THEN [res |-> Failure(404, <<"User not found">>), users |-> us]
    ELSE IF ~isOwnProfile /\ ~isAdmin
    THEN [res |-> Failure(403, <<"Access denied">>), users |-> us]
    ELSE IF fault = "save"
    THEN [res |-> Failure(500, <<"Server error updating user">>), users |-> us]
    ELSE [res |-> Response(200, NoError,
                           [id |-> id, role |-> ApplyUpdate(us[id], body, TRUE).role,
                            isActive |-> ApplyUpdate(us[id], body, TRUE).isActive],
                           NoToken, NoToken),
          users |-> [us EXCEPT ![id] = ApplyUpdate(@, body, TRUE)]]

\* the response of PUT /api/users/:id and the store it leaves
UpdateUserResult(us, token, id, body, e, t, fault) ==
    LET a == auth(HeaderOf(token), us, e, t, fault)
        isOwnProfile == id = a.user._id
        isAdmin == a.user.role = "admin"
    IN
    IF ~a.ok THEN [res |-> Failure(a.status, a.error), users |-> us]
    ELSE IF ~updateValidation(body) THEN [res |-> ValidationFailed, users |-> us]
    ELSE IF fault = "find"
    THEN [res |-> Failure(500, <<"Server error updating user">>), users |-> us]
    ELSE IF id \notin DOMAIN us
    THEN [res |-> Failure(404, <<"User not found">>), users |-> us]
    ELSE IF ~isOwnProfile /\ ~isAdmin
    THEN [res |-> Failure(403, <<"Access denied">>), users |-> us]
    ELSE IF ~isAdmin /\ (Has(body, "role") \/ Has(body, "isActive"))
    THEN [res |-> Failure(403, <<"Insufficient permissions to modify role or active status">>),
          users |-> us]
    ELSE IF fault = "save"
    THEN [res |-> Failure(500, <<"Server error updating user">>), users |-> us]
    ELSE [res |-> Response(200, NoError,
                           [id |-> id, role |-> ApplyUpdate(us[id], body, isAdmin).role,
                            isActive |-> ApplyUpdate(us[id], body, isAdmin).isActive],
                           NoToken, NoToken),
          users |-> [us EXCEPT ![id] = ApplyUpdate(@, body, isAdmin)]]

UpdateBodies ==
    {[isActive |-> FALSE], [isActive |-> TRUE], [role |-> "root"], [role |-> "admin"],
     [firstName |-> "Ada", role |-> "moderator"]}
UpdateFaults == Faults \cup {"auth"}

\* the record kept of the latest PUT /api/users/:id: the account of :id as it was
\* before (none when there was no such account) and the account the request was
\* authenticated as (by = 0: the middleware refused it)
UpdateRequest(id, pre, a, body, fault) ==
    [op |-> "updateUser", id |-> id, pre |-> pre,
     by |-> IF a.ok THEN a.user._id ELSE 0,
     byRole |-> IF a.ok THEN a.user.role ELSE "",
     body |-> body, fault |-> fault]

UpdateUser(id, body, fault) ==
    LET r == UpdateUserResult(users, held, id, body, env, now, fault) IN
    /\ users' = r.users
    /\ res' = r.res
    /\ last' = UpdateRequest(id, IF id \in DOMAIN users THEN users[id] ELSE NoUser,
                              auth(HeaderOf(held), users, env, now, fault), body, fault)
    /\ replaced' = NoReplaced
    /\ UNCHANGED <<nextId, now, env, held, heldFrom, consec, posts, pending>>

----------------------------------------------------------------------------
(* server/src/routes/users.js: DELETE /api/users/:id *)

DeleteUserRoute == Route("/api/users/:id", "auth", TRUE, {"admin"})

\* the store without the document id
Without(us, id) == [i \in DOMAIN us \ {id} |-> us[i]]

\* mutant: the handler does not compare :id with the requester's _id
DeleteUserResult_NoSelfCheck(us, token, id, e, t, fault) ==
    LET g == RunGuards(DeleteUserRoute, HeaderOf(token), us, e, t, fault) IN
    IF ~g.handler THEN [res |-> Failure(g.status, g.error), users |-> us]
    ELSE IF fault = "find"
    THEN [res |-> Failure(500, <<"Server error deleting user">>), users |-> us]
    ELSE IF id \notin DOMAIN us
    THEN [res |-> Failure(404, <<"User not found">>), users |-> us]
    ELSE IF fault = "save"
    THEN [res |-> Failure(500, <<"Server error deleting user">>), users |-> us]
    ELSE [res |-> Response(200, NoError, NoUser, NoToken, NoToken),
          users |-> Without(us, id)]

\* the response of DELETE /api/users/:id and the store it leaves
DeleteUserResult(us, token, id, e, t, fault) ==
    LET g == RunGuards(DeleteUserRoute, HeaderOf(token), us, e, t, fault) IN
    IF ~g.handler THEN [res |-> Failure(g.status, g.error), users |-> us]
    ELSE IF fault = "find"
    THEN [res |-> Failure(500, <<"Server error deleting user">>), users |-> us]
    ELSE IF id \notin DOMAIN us
    THEN [res |-> Failure(404, <<"User not found">>), users |-> us]
    ELSE IF ObjectIdString(id) = ObjectIdString(g.user._id)
    THEN [res |-> Failure(400, <<"Cannot delete your own account">>), users |-> us]
    ELSE IF fault = "save"
    THEN [res |-> Failure(500, <<"Server error deleting user">>), users |-> us]
    ELSE [res |-> Response(200, NoError, NoUser, NoToken, NoToken),
          users |-> Without(us, id)]

\* the record kept of the latest DELETE /api/users/:id: the account the request
\* was authenticated as (by = 0: auth refused it) and its role
DeleteRequest(id, g, fault) ==
    [op |-> "deleteUser", id |-> id, fault |-> fault,
     by |-> IF g.user = NoUser THEN 0 ELSE g.user._id,
     byRole |-> IF g.user = NoUser THEN "" ELSE g.user.role]

DeleteUser(id, fault) ==
    LET r == DeleteUserResult(users, held, id, env, now, fault) IN
    /\ users' = r.users
    /\ res' = r.res
    /\ last' = DeleteRequest(id, RunGuards(DeleteUserRoute, HeaderOf(held), users, env,
                                            now, fault), fault)
    /\ replaced' = NoReplaced
    /\ UNCHANGED <<nextId, now, env, held, heldFrom, consec, posts, pending>>

----------------------------------------------------------------------------
(* server/src/utils/helpers.js: slugify, on texts given as their characters  *)

\* the characters of the titles of the model
Chars(title) ==
    CASE title = "Test Post" -> <<"T", "e", "s", "t", " ", "P", "o", "s", "t">>
      [] title = "Updated Test Post" ->
            <<"U", "p", "d", "a", "t", "e", "d", " ", "T", "e", "s", "t", " ", "P", "o", "s", "t">>
      [] title = "Forbidden Update" ->
            <<"F", "o", "r", "b", "i", "d", "d", "e", "n", " ", "U", "p", "d", "a", "t", "e">>
      [] title = "Testing & Debugging" ->
            <<"T", "e", "s", "t", "i", "n", "g", " ", "&", " ", "D", "e", "b", "u", "g", "g", "i", "n", "g">>
      [] OTHER -> <<>>

\* the capitals and the small letters, in the same order
UpperCase ==
    <<"A", "B", "C", "D", "E", "F", "G", "H", "I", "J", "K", "L", "M",
      "N", "O", "P", "Q", "R", "S", "T", "U", "V", "W", "X", "Y", "Z">>
LowerCase ==
    <<"a", "b", "c", "d", "e", "f", "g", "h", "i", "j", "k", "l", "m",
      "n", "o", "p", "q", "r", "s", "t", "u", "v", "w", "x", "y", "z">>

\* toLowerCase() of one character
toLowerCase(c) ==
    IF \E i \in DOMAIN UpperCase : UpperCase[i] = c
    THEN LowerCase[CHOOSE i \in DOMAIN UpperCase : UpperCase[i] = c]
    ELSE c

\* \w of a regular expression, for lower case text
isWordChar(c) ==
    \/ \E i \in DOMAIN LowerCase : LowerCase[i] = c
    \/ c \in {"0", "1", "2", "3", "4", "5", "6", "7", "8", "9", "_"}

\* .replace(/\s+/g, '-'): every run of spaces becomes one '-'
RECURSIVE replaceSpaces(_)
replaceSpaces(t) ==
    IF t = <<>> THEN <<>>
    ELSE IF Head(t) = " "
    THEN IF Len(t) > 1 /\ t[2] = " " THEN replaceSpaces(Tail(t))
         ELSE <<"-">> \o replaceSpaces(Tail(t))
    ELSE <<Head(t)>> \o replaceSpaces(Tail(t))

\* .replace(/[^\w\-]+/g, ''): what is neither a word character nor '-' is removed
removeNonWord(t) == SelectSeq(t, LAMBDA c : isWordChar(c) \/ c = "-")

\* .replace(/\-\-+/g, '-'): every run of '-' becomes one '-'
RECURSIVE collapseDashes(_)
collapseDashes(t) ==
    IF t = <<>> THEN <<>>
    ELSE IF Head(t) = "-" /\ Len(t) > 1 /\ t[2] = "-" THEN collapseDashes(Tail(t))
    ELSE <<Head(t)>> \o collapseDashes(Tail(t))

\* .replace(/^-+/, '')
RECURSIVE trimStart(_)
trimStart(t) == IF t # <<>> /\ Head(t) = "-" THEN trimStart(Tail(t)) ELSE t

\* .replace(/-+$/, '')
RECURSIVE trimEnd(_)
trimEnd(t) ==
    IF t # <<>> /\ t[Len(t)] = "-" THEN trimEnd(SubSeq(t, 1, Len(t) - 1)) ELSE t

slugify(text) ==
    trimEnd(trimStart(collapseDashes(removeNonWord(replaceSpaces(
        [i \in 1..Len(text) |-> toLowerCase(text[i])])))))

----------------------------------------------------------------------------
(* The Post model: the slug of postSchema.pre('save')                        *)

\* a slug that is not set
NoSlug == <<>>

\* postSchema.pre('save'): the slug is generated from the title when there is none
preSave(post) ==
    IF post.slug = NoSlug THEN [post EXCEPT !.slug = slugify(Chars(post.title))]
    ELSE post

----------------------------------------------------------------------------
(* The posts routes: PUT /api/posts/:id and DELETE /api/posts/:id *)

NoPost == [none |-> TRUE]

\* the categories collection, and an id of no category
Categories == {"cat1", "cat2"}
NoSuchCategory == "cat9"

\* isMongoId() on the inputs of the model
isMongoId(c) == c \in Categories \cup {NoSuchCategory}

\* the titles and contents of the model that have the length postValidation asks for
ValidTitles ==
    {"Test Post", "Updated Test Post", "Forbidden Update", "Testing & Debugging"}
ValidContents == {"This is a test post content", "This content has been updated"}

\* postValidation: the title has 5 to 200 characters, the content 10 to 10000, and
\* the category is an id; a body without one of them fails
postValidation(body) ==
    /\ Has(body, "title") /\ body.title \in ValidTitles
    /\ Has(body, "content") /\ body.content \in ValidContents
    /\ Has(body, "category") /\ isMongoId(body.category)

\* the assignments of PUT /api/posts/:id to the loaded post; the slug is unset when
\* the title of the body differs from the title of the post after the assignment
ApplyPostUpdate(post, body) ==
    LET p1 == IF Has(body, "title") /\ body.title # ""
              THEN [post EXCEPT !.title = body.title] ELSE post
        p2 == IF Has(body, "content") /\ body.content # ""
              THEN [p1 EXCEPT !.content = body.content] ELSE p1
        p3 == IF Has(body, "category") /\ body.category # ""
              THEN [p2 EXCEPT !.category = body.category] ELSE p2
        p4 == IF Has(body, "published") THEN [p3 EXCEPT !.published = body.published]
              ELSE p3
    IN  IF Has(body, "title") /\ body.title # "" /\ body.title # p4.title
        THEN [p4 EXCEPT !.slug = NoSlug] ELSE p4

NotAuthorized(what) == Failure(403, <<"Not authorized to", what, "this post">>)

\* the response of PUT /api/posts/:id and the posts it leaves
UpdatePostResult(ps, us, token, id, body, e, t, fault) ==
    LET a == auth(HeaderOf(token), us, e, t, fault) IN
    IF ~a.ok THEN [res |-> Failure(a.status, a.error), posts |-> ps]
    ELSE IF ~postValidation(body) THEN [res |-> ValidationFailed, posts |-> ps]
    ELSE IF fault = "find"
    THEN [res |-> Failure(500, <<"Server error updating post">>), posts |-> ps]
    ELSE IF id \notin DOMAIN ps
    THEN [res |-> Failure(404, <<"Post not found">>), posts |-> ps]
    ELSE IF ObjectIdString(ps[id].author) # ObjectIdString(a.user._id)
    THEN [res |-> NotAuthorized("update"), posts |-> ps]
    ELSE IF body.category # ps[id].category /\ body.category \notin Categories
    THEN [res |-> Failure(400, <<"Invalid category">>), posts |-> ps]
    ELSE IF fault = "save"
    THEN [res |-> Failure(500, <<"Server error updating post">>), posts |-> ps]
    ELSE [res |-> Response(200, NoError, NoUser, NoToken, NoToken),
          posts |-> [ps EXCEPT ![id] = preSave(ApplyPostUpdate(@, body))]]

\* the response of DELETE /api/posts/:id and the posts it leaves
DeletePostResult(ps, us, token, id, e, t, fault) ==
    LET a == auth(HeaderOf(token), us, e, t, fault) IN
    IF ~a.ok THEN [res |-> Failure(a.status, a.error), posts |-> ps]
    ELSE IF fault = "find"
    THEN [res |-> Failure(500, <<"Server error deleting post">>), posts |-> ps]
    ELSE IF id \notin DOMAIN ps
    THEN [res |-> Failure(404, <<"Post not found">>), posts |-> ps]
    ELSE IF ObjectIdString(ps[id].author) # ObjectIdString(a.user._id)
    THEN [res |-> NotAuthorized("delete"), posts |-> ps]
    ELSE IF fault = "save"
    THEN [res |-> Failure(500, <<"Server error deleting post">>), posts |-> ps]
    ELSE [res |-> Response(200, NoError, NoUser, NoToken, NoToken),
          posts |-> Without(ps, id)]

\* the record kept of the latest request on a post: the post as it was before (none
\* when there was no such post) and the account the request was authenticated as
\* (by = 0: the middleware refused it)
PostRequest(op, id, pre, a, body, fault) ==
    [op |-> op, id |-> id, pre |-> pre,
     by |-> IF a.ok THEN a.user._id ELSE 0,
     role |-> IF a.ok THEN a.user.role ELSE "",
     body |-> body, fault |-> fault]

UpdatePost(id, body, fault) ==
    LET r == UpdatePostResult(posts, users, held, id, body, env, now, fault) IN
    /\ posts' = r.posts
    /\ res' = r.res
    /\ last' = PostRequest("updatePost", id,
                           IF id \in DOMAIN posts THEN posts[id] ELSE NoPost,
                           auth(HeaderOf(held), users, env, now, fault), body, fault)
    /\ replaced' = NoReplaced
    /\ UNCHANGED <<users, nextId, now, env, held, heldFrom, consec, pending>>

DeletePost(id, fault) ==
    LET r == DeletePostResult(posts, users, held, id, env, now, fault) IN
    /\ posts' = r.posts
    /\ res' = r.res
    /\ last' = PostRequest("deletePost", id,
                           IF id \in DOMAIN posts THEN posts[id] ELSE NoPost,
                           auth(HeaderOf(held), users, env, now, fault), <<>>, fault)
    /\ replaced' = NoReplaced
    /\ UNCHANGED <<users, nextId, now, env, held, heldFrom, consec, pending>>

----------------------------------------------------------------------------
(* The clock *)

Tick ==
    /\ now < MaxTime
    /\ now' = now + 1
    /\ last' = Request("tick", "", "", "none", 0, NoUser, NoStreak, FALSE, "")
    /\ replaced' = NoReplaced
    /\ UNCHANGED <<users, nextId, env, held, heldFrom, res, consec, posts, pending>>

----------------------------------------------------------------------------
(* The specification *)

\* the environments of the model: nothing set, or secrets and a 1 hour expiry
Environments ==
    {[JWT_SECRET |-> "", JWT_REFRESH_SECRET |-> "", JWT_EXPIRE |-> 0],
     [JWT_SECRET |-> "s3cret", JWT_REFRESH_SECRET |-> "r3fresh", JWT_EXPIRE |-> 2]}

DisabledEmail == "disabled@x.com"

\* the login requests of the model: every account and the unknown identifier with a
\* right and a wrong secret under every fault, and the malformed requests
LoginInputs ==
    [email : {UserEmail, DisabledEmail, NoSuchEmail}, password : Passwords, fault : Faults]
    \cup {[email |-> UpperUserEmail, password |-> "password123", fault |-> "none"],
          [email |-> BadEmail, password |-> "password123", fault |-> "none"],
          [email |-> UserEmail, password |-> EmptyPassword, fault |-> "none"],
          [email |-> UserEmail, password |-> Absent, fault |-> "none"],
          [email |-> EmptyEmail, password |-> "password123", fault |-> "none"]}

\* the store as seeded: an account, and one created with isActive: false
SeededUsers ==
    (1 :> NewUser(1, "realuser", UserEmail, "password123", "salt1", "user"))
    @@ (2 :> [NewUser(2, "disabled", DisabledEmail, "password123", "salt2", "user")
                EXCEPT !.isActive = FALSE])

Init ==
    /\ users = SeededUsers
    /\ nextId = 3
    /\ now = 0
    /\ env \in Environments
    /\ held = NoToken
    /\ heldFrom = NoProvenance
    /\ res = Failure(0, NoError)
    /\ last = Request("init", "", "", "none", 0, NoUser, NoStreak, FALSE, "")
    /\ consec = [i \in DOMAIN SeededUsers |-> NoStreak]
    /\ replaced = NoReplaced
    /\ posts = <<>>
    /\ pending = {}

Next ==
    \/ \E i \in LoginInputs : Login(i.email, i.password, i.fault)
    \/ Tick

Spec == Init /\ [][Next]_vars

----------------------------------------------------------------------------
(* Accounts: registration, login and PUT /api/users/:id, starting from a     *)
(* store that holds the seeded administrator.                                *)

MaxAccountsTime == 1

AccountsInit ==
    /\ users = (1 :> NewUser(1, "admin", AdminEmail, "password123", "salt1", "admin"))
    /\ nextId = 2
    /\ now = 0
    /\ env = [JWT_SECRET |-> "", JWT_REFRESH_SECRET |-> "", JWT_EXPIRE |-> 0]
    /\ held = NoToken
    /\ heldFrom = NoProvenance
    /\ res = Failure(0, NoError)
    /\ last = Request("init", "", "", "none", 0, NoUser, NoStreak, FALSE, "")
    /\ consec = [i \in 1..MaxUsers |-> NoStreak]
    /\ replaced = NoReplaced
    /\ posts = <<>>
    /\ pending = {}

RegisterInputs ==
    [username : RegisterUsernames, email : RegisterEmails,
     password : {"password123"}, salt : {"salt2"}, fault : Faults]
    \cup {[username |-> "realuser", email |-> UserEmail, password |-> "weak",
           salt |-> "salt2", fault |-> "none"],
          [username |-> "realuser", email |-> UpperUserEmail, password |-> "password123",
           salt |-> "salt2", fault |-> "none"]}

AccountsLoginInputs ==
    [email : {AdminEmail, UserEmail}, password : {"password123"}, fault : {"none"}]

UpdateInputs ==
    [id : 1..MaxUsers, body : UpdateBodies, fault : {"none"}]
    \cup [id : {1}, body : {[isActive |-> FALSE]}, fault : UpdateFaults]

AccountsTick ==
    /\ now < MaxAccountsTime
    /\ now' = now + 1
    /\ last' = Request("tick", "", "", "none", 0, NoUser, NoStreak, FALSE, "")
    /\ replaced' = NoReplaced
    /\ UNCHANGED <<users, nextId, env, held, heldFrom, res, consec, posts, pending>>

AccountsNext ==
    \/ \E i \in RegisterInputs :
          Register(i.username, i.email, i.password, i.salt, i.fault)
    \/ \E i \in AccountsLoginInputs : Login(i.email, i.password, i.fault)
    \/ \E i \in UpdateInputs : UpdateUser(i.id, i.body, i.fault)
    \/ AccountsTick

AccountsSpec == AccountsInit /\ [][AccountsNext]_vars

\* an account of the store has the (normalised) email of the request
EmailTaken(us, email) == \E i \in DOMAIN us : us[i].email = normalizeEmail(email)
\* ... the username of the request
UsernameTaken(us, username) == \E i \in DOMAIN us : us[i].username = username

\* C16: a POST /register that passes the validators, with an email or a username
\* of a stored account, is answered 400 'User with this email already exists' or
\* 'User with this username already exists' (when the lookup answers), no account
\* is created and no token is issued.
C16_DuplicateRefused ==
    [][(/\ last'.op = "register"
        /\ registerValidation(last'.username, last'.email, last'.password)
        /\ last'.fault # "find"
        /\ (EmailTaken(users, last'.email) \/ UsernameTaken(users, last'.username)))
          => /\ res'.status = 400
             /\ res' \in {AlreadyExists("email"), AlreadyExists("username")}
             /\ ~UsernameTaken(users, last'.username) => res' = AlreadyExists("email")
             /\ ~EmailTaken(users, last'.email) => res' = AlreadyExists("username")
             /\ users' = users /\ nextId' = nextId
             /\ res'.token = NoToken /\ res'.refreshToken = NoToken
             /\ held' = held]_vars

\* the username of the administrator was asked for with an email nobody has
C16_Witness ==
    /\ last.op = "register" /\ last.username = "admin"
    /\ ~EmailTaken(users, last.email)
    /\ res = AlreadyExists("username")
    /\ DOMAIN users = {1}

\* the email of an account was asked for in another spelling
C16_OtherSpelling ==
    /\ last.op = "register" /\ last.email = UpperUserEmail
    /\ res = AlreadyExists("email")

----------------------------------------------------------------------------
(* Registrations in flight at the same time: each request asks User.findOne,  *)
(* and creates the account later, after other requests have run.             *)

MaxClients == 2

Clients == 1..MaxClients

RegisterInit ==
    /\ users = <<>>
    /\ nextId = 1
    /\ now = 0
    /\ env = [JWT_SECRET |-> "", JWT_REFRESH_SECRET |-> "", JWT_EXPIRE |-> 0]
    /\ held = NoToken
    /\ heldFrom = NoProvenance
    /\ res = Failure(0, NoError)
    /\ last = Request("init", "", "", "none", 0, NoUser, NoStreak, FALSE, "")
    /\ consec = [i \in 1..MaxUsers |-> NoStreak]
    /\ replaced = NoReplaced
    /\ posts = <<>>
    /\ pending = {}

\* the registrations of the model: two usernames, two addresses, one of the
\* addresses in a second spelling
RaceInputs ==
    [username : RegisterUsernames, email : RegisterEmails \cup {UpperUserEmail},
     password : {"password123"}, salt : {"salt1"}]

RegisterNext ==
    \/ \E c \in Clients, i \in RaceInputs :
          RegisterCheck(c, i.username, i.email, i.password, i.salt)
    \/ \E r \in pending, f \in {"none", "save"} : RegisterCreate(r, f)

RegisterSpec == RegisterInit /\ [][RegisterNext]_vars

\* C17: whatever the interleaving of the POST /register requests in flight, no two
\* stored accounts have the same email (emails are stored normalised) and no two
\* have the same username.
C17_UniqueAccounts ==
    /\ \A i \in DOMAIN users, j \in DOMAIN users :
          i # j => /\ users[i].email # users[j].email
                   /\ users[i].username # users[j].username
    /\ \A i \in DOMAIN users : normalizeEmail(users[i].email) = users[i].email

\* two requests for the same address both found no account; the one that came
\* second to User.create was refused
C17_Witness ==
    /\ last.op = "registerCreate" /\ last.fault = "none" /\ last.id = 0
    /\ res = RegistrationFailed
    /\ EmailTaken(users, last.email) /\ ~UsernameTaken(users, last.username)

----------------------------------------------------------------------------
(* The token helpers on their own: tokens are issued for the seeded accounts, *)
(* forged, tampered with, and verified as time passes.                       *)

MaxTokenTime == 50

\* nothing has been verified since the held token or the time changed
NoResult == Failure(0, NoError)

TokenStep(op) == Request(op, "", "", "none", 0, NoUser, NoStreak, FALSE, "")

\* generateToken(user)
TokenIssue(i) ==
    /\ held' = generateToken(users[i], env, now)
    /\ heldFrom' = Session(i, now)
    /\ last' = TokenStep("issue")
    /\ replaced' = Replaced(held, heldFrom)
    /\ res' = NoResult
    /\ UNCHANGED <<users, nextId, now, env, consec, posts, pending>>

\* generateRefreshToken(user)
TokenIssueRefresh(i) ==
    /\ held' = generateRefreshToken(users[i], env, now)
    /\ heldFrom' = Provenance("refresh", i, now)
    /\ last' = TokenStep("issueRefresh")
    /\ replaced' = NoReplaced
    /\ res' = NoResult
    /\ UNCHANGED <<users, nextId, now, env, consec, posts, pending>>

\* a token somebody else signed, with a key of their own
TokenForge(i) ==
    /\ held' = jwtSign(TokenPayload(users[i]), "attacker-key", JwtExpire(env), now)
    /\ heldFrom' = Provenance("forged", i, now)
    /\ last' = TokenStep("forge")
    /\ replaced' = NoReplaced
    /\ res' = NoResult
    /\ UNCHANGED <<users, nextId, now, env, consec, posts, pending>>

\* the payload of an issued session token rewritten to name another account
TokenTamper(i) ==
    /\ heldFrom.kind = "session" /\ heldFrom.id # i
    /\ held' = [held EXCEPT !.payload = TokenPayload(users[i])]
    /\ heldFrom' = Provenance("tampered", i, heldFrom.at)
    /\ last' = TokenStep("tamper")
    /\ replaced' = NoReplaced
    /\ res' = NoResult
    /\ UNCHANGED <<users, nextId, now, env, consec, posts, pending>>

\* a string that is no JWT at all
TokenGarbage ==
    /\ held' = MalformedToken
    /\ heldFrom' = Provenance("malformed", 0, now)
    /\ last' = TokenStep("garbage")
    /\ replaced' = NoReplaced
    /\ res' = NoResult
    /\ UNCHANGED <<users, nextId, now, env, consec, posts, pending>>

\* verifyToken(token) on the held token; res is what it returns or throws
TokenVerify ==
    /\ held # NoToken
    /\ res' = verifyToken(held, env, now)
    /\ last' = TokenStep("verify")
    /\ replaced' = NoReplaced
    /\ UNCHANGED <<users, nextId, now, env, held, heldFrom, consec, posts, pending>>

TokenTick ==
    /\ now < MaxTokenTime
    /\ now' = now + 1
    /\ last' = TokenStep("tick")
    /\ replaced' = NoReplaced
    /\ res' = NoResult
    /\ UNCHANGED <<users, nextId, env, held, heldFrom, consec, posts, pending>>

TokenNext ==
    \/ \E i \in DOMAIN users : TokenIssue(i)
    \/ \E i \in DOMAIN users : TokenIssueRefresh(i)
    \/ \E i \in DOMAIN users : TokenForge(i)
    \/ \E i \in DOMAIN users : TokenTamper(i)
    \/ TokenGarbage
    \/ TokenVerify
    \/ TokenTick

TokenSpec == Init /\ [][TokenNext]_vars

\* C10: a token made by generateToken verifies with verifyToken as long as its
\* expiry has not come, and gives back the id, email and username of the account it
\* was made for; from its expiry on, and for a token whose signature is not that
\* of the server's secret over its content, verifyToken throws.
C10_TokenRoundTrip ==
    last.op = "verify" =>
        /\ (heldFrom.kind = "session" /\ now < heldFrom.at + JwtExpire(env))
              => /\ res.ok
                 /\ res.decoded.claims.id = ObjectIdString(users[heldFrom.id]._id)
                 /\ res.decoded.claims.email = users[heldFrom.id].email
                 /\ res.decoded.claims.username = users[heldFrom.id].username
                 /\ res.decoded.exp = heldFrom.at + JwtExpire(env)
        /\ (heldFrom.kind = "session" /\ now >= heldFrom.at + JwtExpire(env))
              => (~res.ok /\ res.name = "TokenExpiredError")
        /\ heldFrom.kind \in {"forged", "tampered", "refresh", "malformed"}
              => (~res.ok /\ res.name = "JsonWebTokenError")

\* a token of the default 24 hours has been verified in its last half hour
C10_Witness ==
    /\ last.op = "verify" /\ heldFrom.kind = "session"
    /\ JwtExpire(env) = JWT_EXPIRE_DEFAULT
    /\ now = heldFrom.at + JWT_EXPIRE_DEFAULT - 1
    /\ res.ok /\ res.decoded.claims.id = ObjectIdString(heldFrom.id)

\* a session token has just been issued for the account the replaced session token
\* was issued for
IssuedTwice ==
    /\ last.op = "issue"
    /\ replaced.from.kind = "session" /\ heldFrom.kind = "session"
    /\ replaced.from.id = heldFrom.id

\* the token verifies and names the account
VerifiesFor(token, id) ==
    /\ verifyToken(token, env, now).ok
    /\ verifyToken(token, env, now).decoded.claims.id = ObjectIdString(id)

\* C11 as stated: two session tokens issued for the same account are distinct, and
\* each verifies (the earlier one as long as it has not expired).
C11_Original ==
    IssuedTwice =>
        /\ held # replaced.token
        /\ VerifiesFor(held, heldFrom.id)
        /\ now < replaced.from.at + JwtExpire(env)
              => VerifiesFor(replaced.token, heldFrom.id)

\* C11 amended: two session tokens issued for the same account are distinct exactly
\* when they were issued at different times of the clock (two issued at the same
\* time are one and the same token), and each verifies on its own until its own
\* expiry, the later one whatever has become of the earlier one.
C11_DistinctWhenIssuedApart ==
    IssuedTwice =>
        /\ (held # replaced.token) <=> (heldFrom.at # replaced.from.at)
        /\ VerifiesFor(held, heldFrom.id)
        /\ held.exp = now + JwtExpire(env)
        /\ (now < replaced.from.at + JwtExpire(env))
              <=> VerifiesFor(replaced.token, heldFrom.id)

\* a second token has been issued while the first, issued earlier, is still valid
C11_Witness ==
    /\ IssuedTwice /\ replaced.from.at < heldFrom.at
    /\ held # replaced.token
    /\ VerifiesFor(held, heldFrom.id) /\ VerifiesFor(replaced.token, heldFrom.id)

----------------------------------------------------------------------------
(* The middleware on the routes of its unit tests: tokens are issued, forged   *)
(* and left to expire, accounts are deleted, and requests are sent to routes   *)
(* behind auth, optionalAuth and authorize.                                    *)

MaxGuardTime == 3

ModeratorEmail == "mod@x.com"

GuardUsers ==
    (1 :> NewUser(1, "admin", AdminEmail, "password123", "salt1", "admin"))
    @@ (2 :> NewUser(2, "testuser", UserEmail, "password123", "salt2", "user"))
    @@ (3 :> NewUser(3, "moderator", ModeratorEmail, "password123", "salt1", "moderator"))

GuardInit ==
    /\ users = GuardUsers
    /\ nextId = 4
    /\ now = 0
    /\ env \in Environments
    /\ held = NoToken
    /\ heldFrom = NoProvenance
    /\ res = Failure(0, NoError)
    /\ last = Request("init", "", "", "none", 0, NoUser, NoStreak, FALSE, "")
    /\ consec = [i \in DOMAIN GuardUsers |-> NoStreak]
    /\ replaced = NoReplaced
    /\ posts = <<>>
    /\ pending = {}

\* the routes the unit tests mount, and one that puts authorize behind optionalAuth
GuardRoutes ==
    {Route("/protected", "auth", FALSE, {}),
     Route("/admin-only", "auth", TRUE, {"admin"}),
     Route("/multi-role", "auth", TRUE, {"admin", "moderator"}),
     Route("/optional", "optionalAuth", FALSE, {}),
     Route("/optional-admin", "optionalAuth", TRUE, {"admin"})}

\* the headers a client sends: none, one that is no bearer header, its token
GuardHeaders == {NoHeader, InvalidFormat, Bearer(held)}

\* the requests to the guarded routes: every route with every header, and for the
\* routes behind auth a request during which the query of the middleware fails
GuardedInputs ==
    [route : GuardRoutes, header : GuardHeaders, fault : {"none"}]
    \cup [route : {Route("/protected", "auth", FALSE, {}),
                   Route("/admin-only", "auth", TRUE, {"admin"})},
          header : {Bearer(held)}, fault : {"auth"}]

\* the requests to DELETE /api/users/:id
DeleteInputs ==
    [id : DOMAIN GuardUsers, fault : {"none"}]
    \cup [id : {2}, fault : {"auth", "find", "save"}]

\* User.findByIdAndDelete(id), as the tests call it on the store
findByIdAndDelete(id) ==
    /\ id \in DOMAIN users
    /\ users' = Without(users, id)
    /\ last' = Request("findByIdAndDelete", "", "", "none", id, NoUser, NoStreak, FALSE, "")
    /\ res' = NoResult
    /\ replaced' = NoReplaced
    /\ UNCHANGED <<nextId, now, env, held, heldFrom, consec, posts, pending>>

GuardTick ==
    /\ now < MaxGuardTime
    /\ now' = now + 1
    /\ last' = TokenStep("tick")
    /\ res' = NoResult
    /\ replaced' = NoReplaced
    /\ UNCHANGED <<users, nextId, env, held, heldFrom, consec, posts, pending>>

GuardNext ==
    \/ \E i \in DOMAIN users : TokenIssue(i)
    \/ \E i \in DOMAIN users : TokenForge(i)
    \/ TokenGarbage
    \/ \E i \in GuardedInputs : Guarded(i.route, i.header, i.fault)
    \/ \E i \in DeleteInputs : DeleteUser(i.id, i.fault)
    \/ \E i \in DOMAIN users : findByIdAndDelete(i)
    \/ GuardTick

GuardSpec == GuardInit /\ [][GuardNext]_vars

IsGuarded == last.op = "guarded"

\* the token the client holds was issued by generateToken and has not expired
HeldIsLive == heldFrom.kind = "session" /\ now < heldFrom.at + JwtExpire(env)
\* ... and the account it was issued for is still stored
HeldAccountStored == heldFrom.id \in DOMAIN users

\* C12: behind auth the handler is invoked only for a request whose header is
\* `Bearer <token>` with a token that verifies (issued by the server, not expired)
\* for an account that is still stored, and then req.user is that account; a
\* missing or malformed header, an invalid or expired token and a token of a
\* deleted account are each answered 401 by the middleware, without the handler.
C12_AuthMiddleware ==
    (IsGuarded /\ last.route.authn = "auth") =>
        /\ last.handler
              => /\ last.header = Bearer(held)
                 /\ HeldIsLive /\ HeldAccountStored
                 /\ last.reqUser = WithoutPassword(users[heldFrom.id])
        /\ (last.header # Bearer(held) \/ ~HeldIsLive \/ ~HeldAccountStored)
              => (~last.handler /\ last.by = "auth" /\ res.status = 401)
        /\ (last.header = Bearer(held) /\ HeldIsLive /\ HeldAccountStored
            /\ last.fault = "none")
              => last.by # "auth"

\* a token that still verifies, presented after its account was deleted
C12_Witness ==
    /\ IsGuarded /\ last.route.authn = "auth" /\ last.header = Bearer(held)
    /\ HeldIsLive /\ ~HeldAccountStored
    /\ ~last.handler /\ res = Failure(401, <<"User not found">>)

\* C13: authorize(...roles) sends a request on only when req.user is set and its
\* role is one of roles; reached without req.user it answers 401, reached with a
\* role outside roles it answers 403, and in both cases the handler is not invoked.
C13_Authorize ==
    (IsGuarded /\ last.route.authz) =>
        /\ last.handler
              => /\ last.reqUser # NoUser
                 /\ last.reqUser.role \in last.route.roles
                 /\ HeldAccountStored /\ users[heldFrom.id].role \in last.route.roles
        /\ (last.by # "auth" /\ last.reqUser = NoUser)
              => (~last.handler /\ res = Failure(401, <<"Authentication required">>))
        /\ (last.by # "auth" /\ last.reqUser # NoUser
            /\ last.reqUser.role \notin last.route.roles)
              => /\ ~last.handler
                 /\ res = Failure(403, <<"Access forbidden - insufficient permissions">>)

\* authorize was reached by a request that optionalAuth let through without a user
C13_Witness ==
    /\ IsGuarded /\ last.route.authz /\ last.route.authn = "optionalAuth"
    /\ last.by = "authorize" /\ last.reqUser = NoUser
    /\ res = Failure(401, <<"Authentication required">>)

\* a moderator is let through to the handler of the route for admins and moderators
C13_RoleAdmitted ==
    /\ IsGuarded /\ last.route.roles = {"admin", "moderator"} /\ last.handler
    /\ last.reqUser.role = "moderator"

\* a user is refused by the route for admins
C13_RoleRefused ==
    /\ IsGuarded /\ last.route.roles = {"admin"} /\ last.by = "authorize"
    /\ last.reqUser # NoUser /\ last.reqUser.role = "user" /\ res.status = 403

----------------------------------------------------------------------------
(* Properties of authentication and lockout. They are read off the latest   *)
(* request: `last` holds the account the call loaded as it was before the   *)
(* call, `users` the store after it, `res` the response.                    *)

\* the latest request was POST /login and passed the validators
IsLogin == last.op = "login" /\ last.outcome # "Validation"
\* ... and the lookup loaded an account
OnAccount == IsLogin /\ last.id # 0
\* the secret an account's stored digest was made from
SecretOf(u) == u.password[3]
\* ... and the presented secret is the account's
CorrectSecret == last.password = SecretOf(last.pre)

LockedResponse ==
    /\ res.status = 401
    /\ Includes(res.error, "Account temporarily locked")
    /\ res.token = NoToken /\ res.refreshToken = NoToken

InvalidCredentialsResponse == Failure(401, <<"Invalid credentials">>)

C2_Original ==
    (OnAccount /\ last.fault = "none" /\ ~isLocked(last.pre, now)
               /\ last.pre.loginAttempts < MAX_LOGIN_ATTEMPTS /\ CorrectSecret)
        => (res.status = 200 /\ users[last.id].loginAttempts = 0)

\* C2 amended: on every enabled account that is not locked and has fewer than 5
\* failed attempts, the correct secret succeeds and leaves the stored count at 0.
C2_CorrectSecretSucceeds ==
    (OnAccount /\ last.fault = "none" /\ last.pre.isActive /\ ~isLocked(last.pre, now)
               /\ last.pre.loginAttempts < MAX_LOGIN_ATTEMPTS /\ CorrectSecret)
        => (res.status = 200 /\ users[last.id].loginAttempts = 0)

C2_Witness ==
    /\ OnAccount /\ last.pre.isActive /\ last.pre.loginAttempts = 3 /\ CorrectSecret
    /\ res.status = 200 /\ users[last.id].loginAttempts = 0

\* C3: a login on an account whose lockUntil lies in the future is answered
\* 'Account temporarily locked' whatever the secret, the secret is not compared
\* with the stored hash and the stored account is left as it was.
C3_LockedShortCircuits ==
    (OnAccount /\ last.pre.lockUntil # Undefined /\ now < last.pre.lockUntil)
        => /\ last.outcome = "AccountLocked" /\ LockedResponse
           /\ ~last.compared
           /\ users[last.id].loginAttempts = last.pre.loginAttempts
           /\ users[last.id] = last.pre

C3_Witness ==
    /\ OnAccount /\ last.pre.lockUntil = now + 1 /\ CorrectSecret
    /\ last.outcome = "AccountLocked" /\ ~last.compared
    /\ users[last.id].loginAttempts = MAX_LOGIN_ATTEMPTS

C6_Original ==
    \A i \in DOMAIN users : \A p \in Passwords, q \in Passwords :
        (~isLocked(users[i], now) /\ p # SecretOf(users[i]))
            => /\ LoginResponse(users, users[i].email, p, "none", env, now)
                    = LoginResponse(users, NoSuchEmail, q, "none", env, now)
               /\ LoginResponse(users, NoSuchEmail, q, "none", env, now)
                    = InvalidCredentialsResponse

\* C6 amended: a login with an identifier of no account and a login on any
\* unlocked, enabled account with a wrong secret get the same response,
\* 401 'Invalid credentials'.
C6_EnumerationResistance ==
    \A i \in DOMAIN users : \A p \in Passwords, q \in Passwords :
        (users[i].isActive /\ ~isLocked(users[i], now) /\ p # SecretOf(users[i]))
            => /\ LoginResponse(users, users[i].email, p, "none", env, now)
                    = LoginResponse(users, NoSuchEmail, q, "none", env, now)
               /\ LoginResponse(users, NoSuchEmail, q, "none", env, now)
                    = InvalidCredentialsResponse

\* an unknown identifier has just been refused, and an account has failed attempts
C6_Witness ==
    /\ IsLogin /\ last.email = NoSuchEmail /\ last.fault = "none"
    /\ res = InvalidCredentialsResponse
    /\ \E i \in DOMAIN users :
          /\ users[i].isActive /\ ~isLocked(users[i], now)
          /\ users[i].loginAttempts > 0

\* C7: after a successful login the stored account has loginAttempts 0, no
\* lockUntil and lastLogin = now, and the response carries the account with a
\* session token and a refresh token issued at this moment.
C7_SuccessfulLogin ==
    (IsLogin /\ res.status = 200)
        => /\ last.id # 0
           /\ users[last.id].loginAttempts = 0
           /\ users[last.id].lockUntil = Undefined
           /\ users[last.id].lastLogin = now
           /\ res.user = LoginUserView(users[last.id])
           /\ res.token = generateToken(users[last.id], env, now)
           /\ res.token.iat = now
           /\ verifyToken(res.token, env, now).ok
           /\ verifyToken(res.token, env, now).decoded.claims.id = ObjectIdString(last.id)
           /\ res.refreshToken # NoToken
           /\ res.refreshToken.iat = now
           /\ res.refreshToken.exp = now + REFRESH_EXPIRE
           /\ res.refreshToken.payload.id = ObjectIdString(last.id)

C7_Witness ==
    /\ IsLogin /\ res.status = 200
    /\ last.pre.loginAttempts = MAX_LOGIN_ATTEMPTS - 1
    /\ users[last.id].loginAttempts = 0 /\ users[last.id].lockUntil = Undefined

\* C8: POST /login hands out a session or refresh token only when the account was
\* found, was not locked and the secret matched; every failure inside the
\* authentication (no account, wrong secret, locked, disabled, store error)
\* is answered without a token.
C8_FailClosed ==
    last.op = "login" =>
        /\ (res.token # NoToken \/ res.refreshToken # NoToken)
              => /\ last.id # 0
                 /\ ~isLocked(last.pre, now)
                 /\ last.password = SecretOf(last.pre)
                 /\ last.outcome = "ok"
        /\ last.outcome # "ok"
              => (res.token = NoToken /\ res.refreshToken = NoToken /\ res.user = NoUser)

\* the write that records a failed attempt was refused by the store
C8_Witness ==
    /\ IsLogin /\ last.fault = "save" /\ last.compared
    /\ last.password # SecretOf(users[1]) /\ last.email = UserEmail
    /\ last.outcome = "StoreError"
    /\ res.token = NoToken /\ res.refreshToken = NoToken

\* the email is no email address or is empty, or the password is empty or missing
MalformedLogin(email, password) ==
    \/ email \in {BadEmail, EmptyEmail}
    \/ password \in {EmptyPassword, Absent}

\* C14: a POST /login whose email is invalid or empty, or whose password is empty
\* or missing, is answered 400 'Validation failed' and findByCredentials is not
\* invoked: no account is loaded, no secret compared, no token issued, and the
\* store (every account's loginAttempts, lockUntil and lastLogin) stays as it was.
C14_ValidationBeforeAuthenticate ==
    [][(last'.op = "login" /\ MalformedLogin(last'.email, last'.password))
          => /\ res' = ValidationFailed
             /\ last'.id = 0 /\ ~last'.compared
             /\ users' = users
             /\ \A i \in DOMAIN users :
                   /\ users'[i].loginAttempts = users[i].loginAttempts
                   /\ users'[i].lockUntil = users[i].lockUntil
                   /\ users'[i].lastLogin = users[i].lastLogin
             /\ held' = held]_vars

\* a request without a password on an account that has failed attempts behind it
C14_Witness ==
    /\ last.op = "login" /\ last.email = UserEmail /\ last.password = Absent
    /\ res = ValidationFailed
    /\ users[1].loginAttempts = MAX_LOGIN_ATTEMPTS - 1

C9_ResponseMapping ==
    IsLogin =>
        /\ last.outcome = "InvalidCredentials" => res = InvalidCredentialsResponse
        /\ last.outcome = "AccountLocked" => LockedResponse
        /\ last.outcome \in {"AccountInactive", "StoreError"}
              => res = Failure(500, <<"Server error during login">>)
        /\ last.outcome = "ok" <=> res.status = 200
        /\ res.status \in {200, 401, 500}
        /\ last.outcome \in {"ok", "InvalidCredentials", "AccountLocked",
                             "AccountInactive", "StoreError"}

C9_Witness ==
    /\ IsLogin /\ last.outcome = "AccountInactive"
    /\ res = Failure(500, <<"Server error during login">>)

----------------------------------------------------------------------------
(* Changing the password: the accounts hold tokens, log in with right and     *)
(* wrong secrets, and send POST /change-password.                             *)

PasswordInit ==
    /\ users = SeededUsers
    /\ nextId = 3
    /\ now = 0
    /\ env = [JWT_SECRET |-> "", JWT_REFRESH_SECRET |-> "", JWT_EXPIRE |-> 0]
    /\ held = NoToken
    /\ heldFrom = NoProvenance
    /\ res = Failure(0, NoError)
    /\ last = Request("init", "", "", "none", 0, NoUser, NoStreak, FALSE, "")
    /\ consec = [i \in DOMAIN SeededUsers |-> NoStreak]
    /\ replaced = NoReplaced
    /\ posts = <<>>
    /\ pending = {}

PasswordLoginInputs ==
    [email : {UserEmail}, password : {"password123", "newpassword456", "wrongsecret1"},
     fault : {"none"}]

\* the bodies of POST /change-password: a right or a wrong current password with a
\* new, the same or a weak new password, a body without currentPassword, and
\* requests during which the store fails
ChangeInputs ==
    [currentPassword : {"password123", "newpassword456"}, newPassword : NewPasswords,
     salt : {"salt2"}, fault : {"none"}]
    \cup [currentPassword : {Absent}, newPassword : {"newpassword456"},
          salt : {"salt2"}, fault : {"none"}]
    \cup [currentPassword : {"password123"}, newPassword : {"newpassword456"},
          salt : {"salt2"}, fault : {"auth", "find", "save"}]

PasswordNext ==
    \/ \E i \in DOMAIN users : TokenIssue(i)
    \/ \E i \in PasswordLoginInputs : Login(i.email, i.password, i.fault)
    \/ \E i \in ChangeInputs :
          ChangePassword(i.currentPassword, i.newPassword, i.salt, i.fault)

PasswordSpec == PasswordInit /\ [][PasswordNext]_vars

IsChange == last.op = "changePassword"

\* POST /login with the email of account id and the password succeeds
Authenticates(us, id, password) ==
    LoginResponse(us, us[id].email, password, "none", env, now).status = 200

\* ... is refused as a wrong secret
Refused(us, id, password) ==
    LoginResponse(us, us[id].email, password, "none", env, now) = InvalidCredentialsResponse

CurrentPasswordIncorrect == Failure(400, <<"Current password is incorrect">>)

\* C18 as stated: after a mismatch (400 'Current password is incorrect') the old
\* password still authenticates at POST /login; after a success the new password
\* authenticates there and the old one no longer does.
C18_Original ==
    (/\ IsChange /\ last.id # 0 /\ last.fault = "none"
     /\ changePasswordValidation(last.currentPassword, last.newPassword))
        => /\ last.currentPassword # SecretOf(last.pre)
                 => /\ res = CurrentPasswordIncorrect
                    /\ Authenticates(users, last.id, SecretOf(last.pre))
           /\ last.currentPassword = SecretOf(last.pre)
                 => /\ res.status = 200
                    /\ Authenticates(users, last.id, last.newPassword)
                    /\ ~Authenticates(users, last.id, SecretOf(last.pre))

\* C18 amended: POST /change-password changes the store only when currentPassword
\* matches the stored hash, and then only the password of the caller's account.
\* On a mismatch it answers 400 'Current password is incorrect' and the store is
\* as before; on a match the stored hash is that of newPassword. So on an enabled,
\* unlocked account the old password still authenticates at POST /login after a
\* mismatch, and after a success the new one authenticates and the old one, when
\* it differs from the new one, is refused.
C18_ChangePassword ==
    [][last'.op = "changePassword" =>
        LET id == last'.id
            cur == last'.currentPassword
            new == last'.newPassword
        IN
        /\ users' # users
              => /\ id # 0 /\ cur = SecretOf(users[id]) /\ res'.status = 200
                 /\ users' = [users EXCEPT ![id].password = users'[id].password]
        /\ (id # 0 /\ last'.fault = "none" /\ changePasswordValidation(cur, new))
              => /\ cur # SecretOf(users[id])
                       => /\ res' = CurrentPasswordIncorrect
                          /\ users' = users
                          /\ (users[id].isActive /\ ~isLocked(users[id], now))
                                => Authenticates(users', id, SecretOf(users[id]))
                 /\ cur = SecretOf(users[id])
                       => /\ res'.status = 200
                          /\ SecretOf(users'[id]) = new
                          /\ (users[id].isActive /\ ~isLocked(users[id], now))
                                => /\ Authenticates(users', id, new)
                                   /\ new # cur => Refused(users', id, cur)]_vars

\* the password was changed to another one: the new one logs in, the old one not
C18_Witness ==
    /\ IsChange /\ res.status = 200 /\ last.id = 1
    /\ last.newPassword # SecretOf(last.pre)
    /\ SecretOf(users[1]) = last.newPassword
    /\ Authenticates(users, 1, last.newPassword)
    /\ Refused(users, 1, SecretOf(last.pre))

\* a wrong current password was refused on an account that can log in
C18_MismatchKeepsPassword ==
    /\ IsChange /\ res = CurrentPasswordIncorrect /\ last.id = 1
    /\ users[1] = last.pre
    /\ Authenticates(users, 1, SecretOf(last.pre))

----------------------------------------------------------------------------
(* The posts routes as their integration tests use them: a post of testuser,  *)
(* and requests to change or delete it without a token and with the token of  *)
(* its author, of the administrator and of the moderator.                     *)

\* the post the tests create for testuser
SeededPosts ==
    (1 :> [_id |-> 1, author |-> 2, title |-> "Test Post",
           slug |-> slugify(Chars("Test Post")),
           content |-> "This is a test post content", category |-> "cat1",
           published |-> TRUE, views |-> 0, likes |-> <<>>, v |-> 0])

PostsInit ==
    /\ users = GuardUsers
    /\ nextId = 4
    /\ now = 0
    /\ env = [JWT_SECRET |-> "", JWT_REFRESH_SECRET |-> "", JWT_EXPIRE |-> 0]
    /\ held = NoToken
    /\ heldFrom = NoProvenance
    /\ res = Failure(0, NoError)
    /\ last = Request("init", "", "", "none", 0, NoUser, NoStreak, FALSE, "")
    /\ consec = [i \in DOMAIN GuardUsers |-> NoStreak]
    /\ replaced = NoReplaced
    /\ posts = SeededPosts
    /\ pending = {}

\* the bodies of PUT: the partial ones of the tests, and bodies with every field
\* postValidation asks for
PostBodies ==
    {[title |-> "Forbidden Update"],
     [title |-> "Updated Test Post", content |-> "This content has been updated"],
     [title |-> "Updated Test Post", content |-> "This content has been updated",
      category |-> "cat1"],
     [title |-> "Forbidden Update", content |-> "This content has been updated",
      category |-> "cat2", published |-> FALSE],
     [title |-> "Test Post", content |-> "This is a test post content",
      category |-> NoSuchCategory],
     [title |-> "Testing & Debugging", content |-> "This is a test post content",
      category |-> "cat1"]}

PostIds == {1, 2}

PostsNext ==
    \/ \E i \in DOMAIN users : TokenIssue(i)
    \/ TokenGarbage
    \/ \E id \in PostIds, b \in PostBodies, f \in Faults \cup {"auth"} :
          UpdatePost(id, b, f)
    \/ \E id \in PostIds, f \in Faults \cup {"auth"} : DeletePost(id, f)

PostsSpec == PostsInit /\ [][PostsNext]_vars

\* the latest request was a PUT or a DELETE on a post that was stored, and the
\* store answered its queries
OnPost ==
    /\ last.op \in {"updatePost", "deletePost"}
    /\ last.pre # NoPost
    /\ last.fault = "none"

\* the post of the latest request is stored as it was before the request
PostUntouched == last.id \in DOMAIN posts /\ posts[last.id] = last.pre

\* C19: a post is changed by PUT /api/posts/:id or removed by DELETE
\* /api/posts/:id only by a request authenticated as its author; a request
\* authenticated as anybody else, whatever the role, is answered 403 and leaves
\* the post as it was, and a request that is not authenticated is answered 401.
C19_AuthorOnly ==
    OnPost =>
        /\ ~PostUntouched => last.by = last.pre.author
        /\ last.by = 0 => (res.status = 401 /\ PostUntouched)
        /\ (last.by # 0 /\ last.by # last.pre.author)
              => (res.status = 403 /\ PostUntouched)

\* what holds of the code: nobody but the author changes or removes a post, and
\* it is the validators of PUT that answer before the ownership check
C19_NobodyElseChanges ==
    OnPost =>
        /\ ~PostUntouched => last.by = last.pre.author
        /\ last.by = 0 => (res.status = 401 /\ PostUntouched)
        /\ (last.by # 0 /\ last.by # last.pre.author)
              => /\ PostUntouched
                 /\ res.status = IF last.op = "updatePost" /\ ~postValidation(last.body)
                                 THEN 400 ELSE 403

----------------------------------------------------------------------------
(* A client that logs out and goes on presenting its token *)

\* the requests to POST /logout: every header, and one during which the query of
\* the middleware fails
LogoutInputs ==
    [header : GuardHeaders, fault : {"none"}]
    \cup [header : {Bearer(held)}, fault : {"auth"}]

LogoutNext ==
    \/ \E i \in DOMAIN users : TokenIssue(i)
    \/ TokenGarbage
    \/ \E i \in LogoutInputs : Logout(i.header, i.fault)
    \/ \E i \in GuardedInputs : Guarded(i.route, i.header, i.fault)
    \/ GuardTick

LogoutSpec == GuardInit /\ [][LogoutNext]_vars

\* the latest request was a logout that succeeded
LoggedOut == last.op = "logout" /\ res.status = 200

\* C20: POST /api/auth/logout invalidates the token: when a logout has succeeded,
\* the next request that presents the same bearer token to a route behind auth is
\* answered 401 by the middleware and does not reach the handler.
C20_LogoutInvalidates ==
    [][(/\ LoggedOut
        /\ last'.op = "guarded"
        /\ last'.route.authn = "auth"
        /\ last'.header = last.header)
          => (~last'.handler /\ last'.by = "auth" /\ res'.status = 401)]_vars

\* what holds of the code: a logout leaves the store and the token as they were,
\* so the token goes on being accepted until it expires
C20_LogoutChangesNothing ==
    [][last'.op = "logout"
          => UNCHANGED <<users, nextId, now, env, held, heldFrom, consec, posts, pending>>]_vars

----------------------------------------------------------------------------
(* Concurrent logins on one account: POST /login awaits findByCredentials,   *)
(* which loads the account, compares, and then persists the lockout fields;  *)
(* the requests of several clients interleave between the load and the       *)
(* persist.                                                                  *)

\* mutant: the persist increments the stored count ($inc) instead of writing the
\* count of the loaded document plus one
persistFailedAttempt_Atomic(stored, doc, t) ==
    LET d == incLoginAttempts(stored, t) IN
    [stored EXCEPT !.loginAttempts = d.loginAttempts, !.lockUntil = d.lockUntil]

\* the persist of a failed attempt: the lockout fields computed from the document
\* the attempt loaded are written over those of the stored document
persistFailedAttempt(stored, doc, t) ==
    LET d == incLoginAttempts(doc, t) IN
    [stored EXCEPT !.loginAttempts = d.loginAttempts, !.lockUntil = d.lockUntil]

\* the persist of a successful attempt
persistSuccess(stored, doc, t) ==
    LET d == resetLoginAttempts(doc, t) IN
    [stored EXCEPT !.loginAttempts = d.loginAttempts, !.lockUntil = d.lockUntil,
                   !.lastLogin = d.lastLogin]

\* an attempt between its load and its persist: the client, the document it loaded
\* and the secret it presented
Attempt(c, doc, password) ==
    [kind |-> "login", client |-> c, id |-> doc._id, doc |-> doc, password |-> password]

\* the record kept of the latest step of a concurrent login
AttemptStep(op, c, id, pre, password) ==
    [op |-> op, client |-> c, id |-> id, pre |-> pre, password |-> password]

RaceInit ==
    /\ users = (1 :> NewUser(1, "realuser", UserEmail, "password123", "salt1", "user"))
    /\ nextId = 2
    /\ now = 0
    /\ env = [JWT_SECRET |-> "", JWT_REFRESH_SECRET |-> "", JWT_EXPIRE |-> 0]
    /\ held = NoToken
    /\ heldFrom = NoProvenance
    /\ res = NoResult
    /\ last = AttemptStep("init", 0, 0, NoUser, "")
    /\ consec = <<NoStreak>>
    /\ replaced = NoReplaced
    /\ posts = <<>>
    /\ pending = {}

\* the first half of findByCredentials for client c: load the account, look at the
\* lock and the disabled flag, compare the secret
LoginLoad(c, email, password) ==
    LET id == findIdByEmail(users, email)
        doc == users[id]
    IN
    /\ \A a \in pending : a.client # c
    /\ id # 0
    /\ last' = AttemptStep("load", c, id, doc, password)
    /\ IF isLocked(doc, now)
       THEN /\ res' = LoginCatch(Err(LockedMessage(doc, now)))
            /\ UNCHANGED <<pending, consec>>
       ELSE IF ~doc.isActive
       THEN /\ res' = LoginCatch(Err(<<"Account is deactivated">>))
            /\ UNCHANGED <<pending, consec>>
       ELSE /\ res' = NoResult
            /\ pending' = pending \cup {Attempt(c, doc, password)}
            /\ consec' = IF matchPassword(doc, password)
                         THEN [consec EXCEPT ![id] = NoStreak]
                         ELSE [consec EXCEPT ![id] = [n |-> @.n + 1, at |-> now]]
    /\ UNCHANGED <<users, nextId, now, env, held, heldFrom, replaced, posts>>

\* the second half: persist the lockout fields and answer
LoginPersist(a) ==
    /\ a \in pending
    /\ pending' = pending \ {a}
    /\ last' = AttemptStep("persist", a.client, a.id, users[a.id], a.password)
    /\ IF matchPassword(a.doc, a.password)
       THEN /\ users' = [users EXCEPT ![a.id] = persistSuccess(@, a.doc, now)]
            /\ res' = LoginSuccess(resetLoginAttempts(a.doc, now), env, now)
       ELSE /\ users' = [users EXCEPT ![a.id] = persistFailedAttempt(@, a.doc, now)]
            /\ res' = LoginCatch(Err(<<"Invalid credentials">>))
    /\ UNCHANGED <<nextId, now, env, held, heldFrom, consec, replaced, posts>>

RaceNext ==
    \/ \E c \in Clients, p \in Passwords : LoginLoad(c, UserEmail, p)
    \/ \E a \in pending : LoginPersist(a)

RaceSpec == RaceInit /\ [][RaceNext]_vars

\* C21: the load and the persist of an attempt are not one step: a wrong-secret
\* attempt that persists after another attempt has raised the stored count since
\* its load writes the count it loaded plus one, so the stored count does not
\* grow by it (two concurrent wrong-secret attempts count as fewer than two).
C21_StaleAttemptNotCounted ==
    [][\A a \in pending :
          (/\ a \notin pending'
           /\ ~matchPassword(a.doc, a.password)
           /\ users[a.id].loginAttempts > a.doc.loginAttempts)
             => /\ users'[a.id].loginAttempts = a.doc.loginAttempts + 1
                /\ users'[a.id].loginAttempts <= users[a.id].loginAttempts]_vars

\* more wrong-secret comparisons than the threshold were made and persisted on an
\* account that never authenticated, and the account is still not locked
C21_Witness ==
    /\ pending = {}
    /\ users[1].lastLogin = Undefined
    /\ consec[1].n > MAX_LOGIN_ATTEMPTS
    /\ users[1].loginAttempts < MAX_LOGIN_ATTEMPTS
    /\ users[1].lockUntil = Undefined

----------------------------------------------------------------------------
(* The lockout machine of an account over time: Unlocked, Locked, and back   *)

\* a secret that is not the account's
WrongSecretFor(u) == CHOOSE p \in Passwords : p # SecretOf(u)

\* the store after k logins in a row on account i with a wrong secret, all at time t
RECURSIVE AfterWrongSecrets(_, _, _, _)
AfterWrongSecrets(us, i, k, t) ==
    IF k = 0 THEN us
    ELSE AfterWrongSecrets(
             findByCredentials(us, us[i].email, WrongSecretFor(us[i]), "none", t).users,
             i, k - 1, t)

\* the failed attempts that are left before the lock
AttemptsToLock(u) ==
    IF u.loginAttempts + 1 >= MAX_LOGIN_ATTEMPTS THEN 1
    ELSE MAX_LOGIN_ATTEMPTS - u.loginAttempts

\* a Locked account is treated as Unlocked by an attempt made when time has
\* reached lockUntil
UnlocksAtExpiry(i) ==
    isLocked(users[i], now)
        => /\ ~isLocked(users[i], users[i].lockUntil)
           /\ \A p \in Passwords :
                 findByCredentials(users, users[i].email, p, "none",
                                   users[i].lockUntil).kind # "AccountLocked"

\* from an Unlocked account further failed attempts lead to Locked
LocksAgain(i) ==
    ~isLocked(users[i], now)
        => isLocked(AfterWrongSecrets(users, i, AttemptsToLock(users[i]), now)[i], now)

\* C22 as stated: the lockout machine of every account has no terminal state:
\* Locked is left when time reaches lockUntil, and from every Unlocked state
\* Locked is reached again by further failed attempts.
C22_Original == \A i \in DOMAIN users : UnlocksAtExpiry(i) /\ LocksAgain(i)

\* C22: the lockout machine of every enabled account has no terminal state: a
\* Locked account is treated as Unlocked by an attempt made once time has reached
\* lockUntil, and from every Unlocked state further failed attempts lead to
\* Locked again, so the account can go round the two states without end.
C22_NoTerminalState ==
    \A i \in DOMAIN users : users[i].isActive => (UnlocksAtExpiry(i) /\ LocksAgain(i))

\* an account whose earlier lock had run out is locked again by a failed attempt
C22_Witness ==
    /\ OnAccount /\ last.pre.isActive
    /\ last.pre.lockUntil # Undefined /\ last.pre.lockUntil <= now
    /\ last.compared /\ ~CorrectSecret
    /\ isLocked(users[last.id], now)

\* the latest request compared a wrong secret on an account, and the store
\* answered its queries
WrongSecretCompared ==
    OnAccount /\ last.compared /\ ~CorrectSecret /\ last.fault = "none"

\* the lock of the account had run out when the latest request loaded it
LockHadExpired == last.pre.lockUntil # Undefined /\ last.pre.lockUntil <= now

\* C23: the protection engages again after a lock has run out: a wrong-secret
\* attempt on an account whose lock has run out (no login succeeded since) locks
\* it again, and every wrong-secret comparison that is the 5th in a row or a
\* later one sets lockUntil to a time in the future, so no account has 5 or more
\* wrong-secret comparisons in a row behind it without a lock set at the last one.
C23_LockReEngages ==
    /\ WrongSecretCompared
          => /\ LockHadExpired => isLocked(users[last.id], now)
             /\ consec[last.id].n >= MAX_LOGIN_ATTEMPTS
                   => (users[last.id].lockUntil = now + LOCK_TIME /\ isLocked(users[last.id], now))
    /\ \A i \in DOMAIN users :
          consec[i].n >= MAX_LOGIN_ATTEMPTS
              => /\ users[i].lockUntil # Undefined
                 /\ users[i].lockUntil = consec[i].at + LOCK_TIME

\* the 6th wrong-secret comparison in a row, made after the first lock ran out
C23_Witness ==
    /\ WrongSecretCompared /\ LockHadExpired
    /\ last.preStreak.n = MAX_LOGIN_ATTEMPTS
    /\ consec[last.id].n = MAX_LOGIN_ATTEMPTS + 1
    /\ users[last.id].lockUntil = now + LOCK_TIME

\* C24: lockUntil, once set, is not unset by any step of an authentication, a
\* successful login after the lock ran out included, and an account leaves the
\* Locked state only by the passing of time.
C24_LockUntilNeverUnset ==
    [][\A i \in DOMAIN users :
          /\ users[i].lockUntil # Undefined => users'[i].lockUntil # Undefined
          /\ (isLocked(users[i], now) /\ ~isLocked(users'[i], now')) => now' > now]_vars

\* what holds of the model: a Locked account leaves that state only by the
\* passing of time, and lockUntil is unset by nothing but a successful login
C24_UnsetBySuccessOnly ==
    [][\A i \in DOMAIN users :
          /\ (isLocked(users[i], now) /\ ~isLocked(users'[i], now')) => now' > now
          /\ (users[i].lockUntil # Undefined /\ users'[i].lockUntil = Undefined)
                => /\ last'.op = "login" /\ last'.id = i /\ last'.outcome = "ok"
                   /\ users[i].lockUntil <= now
                   /\ users'[i].loginAttempts = 0]_vars

----------------------------------------------------------------------------
(* Profile and user updates next to concurrent logins: PUT /api/auth/profile *)
(* and PUT /api/users/:id load the account with findById, assign the fields  *)
(* of the body and call save(); logins on the same account interleave        *)
(* between the load and the save.                                            *)

\* the paths the update handlers assign
UpdatePaths == {"firstName", "lastName", "bio", "avatar", "role", "isActive"}

\* mutant: save() writes the whole loaded document back
saveModifiedPaths_WholeDocument(stored, doc, assigned) == assigned

\* user.save() of a loaded document after the assignments: the paths whose value
\* was changed by an assignment are written, every other path of the stored
\* document is left as it is
saveModifiedPaths(stored, doc, assigned) ==
    [f \in DOMAIN stored |->
        IF f \in UpdatePaths /\ assigned[f] # doc[f] THEN assigned[f] ELSE stored[f]]

ProfileRoute == "/api/auth/profile"
UsersRoute == "/api/users/:id"

\* an update between its findById and its save(): the route, the account the
\* request is authenticated as, the document it loaded and its body
Update(c, route, by, doc, body) ==
    [kind |-> "update", client |-> c, route |-> route, by |-> by, id |-> doc._id,
     doc |-> doc, body |-> body]

\* the record kept of the latest step of an update
UpdateStep(op, u, pre) ==
    [op |-> op, client |-> u.client, route |-> u.route, by |-> u.by, id |-> u.id,
     doc |-> u.doc, body |-> u.body, pre |-> pre]

\* what the handler does with the loaded document: the response, and the
\* document it saves (the loaded one where it answers before save())
UpdateOutcome(u, requester) ==
    LET isOwnProfile == u.id = requester._id
        isAdmin == requester.role = "admin"
    IN
    IF u.route = ProfileRoute
    THEN [status |-> 200, saved |-> TRUE, assigned |-> ApplyUpdate(u.doc, u.body, FALSE)]
    ELSE IF ~isOwnProfile /\ ~isAdmin
    THEN [status |-> 403, saved |-> FALSE, assigned |-> u.doc]
    ELSE IF ~isAdmin /\ (Has(u.body, "role") \/ Has(u.body, "isActive"))
    THEN [status |-> 403, saved |-> FALSE, assigned |-> u.doc]
    ELSE [status |-> 200, saved |-> TRUE, assigned |-> ApplyUpdate(u.doc, u.body, isAdmin)]

\* the updates of the model on the account of testuser: its own profile, the
\* administrator disabling it, and its own request for a role
UpdateRaceInputs ==
    {[route |-> ProfileRoute, by |-> 2, body |-> [firstName |-> "Ada"]],
     [route |-> UsersRoute, by |-> 1, body |-> [isActive |-> FALSE]],
     [route |-> UsersRoute, by |-> 2, body |-> [role |-> "moderator"]]}

\* the two clients: one logs in, the other sends the updates
LoginClient == "login"
UpdateClient == "update"

UpdateRaceInit ==
    /\ users = (1 :> NewUser(1, "admin", AdminEmail, "password123", "salt1", "admin"))
               @@ (2 :> NewUser(2, "testuser", UserEmail, "password123", "salt2", "user"))
    /\ nextId = 3
    /\ now = 0
    /\ env = [JWT_SECRET |-> "", JWT_REFRESH_SECRET |-> "", JWT_EXPIRE |-> 0]
    /\ held = NoToken
    /\ heldFrom = NoProvenance
    /\ res = NoResult
    /\ last = AttemptStep("init", 0, 0, NoUser, "")
    /\ consec = <<NoStreak, NoStreak>>
    /\ replaced = NoReplaced
    /\ posts = <<>>
    /\ pending = {}

\* the handler up to `await User.findById(...)`
UpdateLoad(c, route, by, body) ==
    LET u == Update(c, route, by, users[2], body) IN
    /\ \A a \in pending : a.client # c
    /\ updateValidation(body)
    /\ pending' = pending \cup {u}
    /\ last' = UpdateStep("updateLoad", u, users[2])
    /\ res' = NoResult
    /\ UNCHANGED <<users, nextId, now, env, held, heldFrom, consec, replaced, posts>>

\* the handler from the permission checks to the response
UpdateSave(u) ==
    LET o == UpdateOutcome(u, users[u.by]) IN
    /\ u \in pending
    /\ pending' = pending \ {u}
    /\ last' = UpdateStep("updateSave", u, users[u.id])
    /\ users' = IF o.saved
                THEN [users EXCEPT ![u.id] = saveModifiedPaths(@, u.doc, o.assigned)]
                ELSE users
    /\ res' = Failure(o.status, NoError)
    /\ UNCHANGED <<nextId, now, env, held, heldFrom, consec, replaced, posts>>

UpdateRaceNext ==
    \/ \E p \in Passwords : LoginLoad(LoginClient, UserEmail, p)
    \/ \E a \in {x \in pending : x.kind = "login"} : LoginPersist(a)
    \/ \E i \in UpdateRaceInputs : UpdateLoad(UpdateClient, i.route, i.by, i.body)
    \/ \E u \in {x \in pending : x.kind = "update"} : UpdateSave(u)

UpdateRaceSpec == UpdateRaceInit /\ [][UpdateRaceNext]_vars

\* the lockout fields of every account are the same before and after the step
LockoutFieldsKept ==
    \A i \in DOMAIN users :
        /\ users'[i].loginAttempts = users[i].loginAttempts
        /\ users'[i].lockUntil = users[i].lockUntil

\* C25: no step of PUT /api/auth/profile or PUT /api/users/:id changes the
\* loginAttempts or lockUntil of an account, also when a login on the same
\* account has persisted them between the update's load and its save: the fields
\* stay as the login path wrote them.
C25_UpdatesKeepLockoutFields ==
    [][last'.op \in {"updateLoad", "updateSave"} => LockoutFieldsKept]_vars

\* an update that saved after a login had changed the count since its load: the
\* stored count is the one the login wrote, and the update took effect
C25_Witness ==
    /\ last.op = "updateSave" /\ res.status = 200
    /\ last.pre.loginAttempts = last.doc.loginAttempts + 1
    /\ users[last.id].loginAttempts = last.pre.loginAttempts
    /\ Has(last.body, "firstName") /\ users[last.id].firstName = last.body.firstName

----------------------------------------------------------------------------
(* Who changes role and isActive (under AccountsSpec)                        *)

\* the role or the active status of account i differs after the step
PrivilegeChanged(i) ==
    /\ i \in DOMAIN users /\ i \in DOMAIN users'
    /\ users'[i].role # users[i].role \/ users'[i].isActive # users[i].isActive

\* the step is a PUT /api/users/:id of a non-admin on a stored account, with a
\* body that passes the validators and carries role or isActive
NonAdminAsksPrivilege ==
    /\ last'.op = "updateUser"
    /\ last'.by # 0 /\ last'.byRole # "admin"
    /\ last'.pre # NoUser /\ last'.fault = "none"
    /\ updateValidation(last'.body)
    /\ Has(last'.body, "role") \/ Has(last'.body, "isActive")

\* C26: the role or isActive of a stored account changes only in a PUT
\* /api/users/:id whose requester is authenticated with role 'admin'; a non-admin
\* request that carries role or isActive is answered 403 and changes nothing in
\* the store (firstName of the same body included); an account that registration
\* creates has role 'user'.
C26_OnlyAdminsChangeRole ==
    [][/\ \A i \in 1..MaxUsers :
             PrivilegeChanged(i)
                => (last'.op = "updateUser" /\ last'.byRole = "admin" /\ res'.status = 200)
       /\ NonAdminAsksPrivilege => (res'.status = 403 /\ users' = users)
       /\ \A i \in DOMAIN users' \ DOMAIN users :
             (last'.op = "register" /\ users'[i].role = "user")]_vars

\* a registered user asks for a role together with a first name and is refused
C26_Witness ==
    /\ last.op = "updateUser" /\ last.by = 2 /\ last.byRole = "user" /\ last.id = 2
    /\ last.body = [firstName |-> "Ada", role |-> "moderator"]
    /\ res.status = 403
    /\ users[2].role = "user" /\ users[2].firstName = ""

\* an administrator disables the account of a registered user
C26_AdminChanges ==
    /\ last.op = "updateUser" /\ last.byRole = "admin" /\ last.id = 2
    /\ last.pre.isActive /\ ~users[2].isActive

----------------------------------------------------------------------------
(* Deleting accounts: clients that hold the tokens of the seeded accounts    *)
(* send DELETE /api/users/:id and requests to the routes behind auth.        *)

\* the token of every seeded account, issued at time 0
IssuedTokens(e) ==
    {[token |-> generateToken(GuardUsers[i], e, 0), from |-> Session(i, 0)] :
        i \in DOMAIN GuardUsers}

DeleteInit ==
    /\ users = GuardUsers
    /\ nextId = 4
    /\ now = 0
    /\ env \in Environments
    /\ held = NoToken
    /\ heldFrom = NoProvenance
    /\ res = NoResult
    /\ last = TokenStep("init")
    /\ consec = [i \in DOMAIN GuardUsers |-> NoStreak]
    /\ replaced = NoReplaced
    /\ posts = <<>>
    /\ pending = IssuedTokens(env)

\* the next requests are sent with the token w
Present(w) ==
    /\ w \in pending
    /\ held' = w.token
    /\ heldFrom' = w.from
    /\ last' = TokenStep("present")
    /\ res' = NoResult
    /\ replaced' = NoReplaced
    /\ UNCHANGED <<users, nextId, now, env, consec, posts, pending>>

DeleteNext ==
    \/ \E w \in pending : Present(w)
    \/ \E i \in DeleteInputs : DeleteUser(i.id, i.fault)
    \/ \E i \in GuardedInputs : Guarded(i.route, i.header, i.fault)

DeleteSpec == DeleteInit /\ [][DeleteNext]_vars

\* the step is a DELETE /api/users/:id during which the store answered
IsDelete == last'.op = "deleteUser" /\ last'.fault = "none"

\* C27: DELETE /api/users/:id removes an account only when the requester is an
\* admin and :id is another, stored account; a non-admin is answered 403, a missing
\* target 404, an admin naming their own id 400 'Cannot delete your own account',
\* each with the store unchanged; and a request behind auth that presents the
\* token of a deleted account is answered 401.
C27_DeleteUser ==
    [][/\ users' # users
             => /\ last'.op = "deleteUser" /\ last'.byRole = "admin"
                /\ last'.id # last'.by /\ last'.id \in DOMAIN users
                /\ users' = Without(users, last'.id)
                /\ res'.status = 200
       /\ (IsDelete /\ last'.by # 0 /\ last'.byRole # "admin")
             => (res'.status = 403 /\ users' = users)
       /\ (IsDelete /\ last'.byRole = "admin" /\ last'.id \notin DOMAIN users)
             => (res' = Failure(404, <<"User not found">>) /\ users' = users)
       /\ (IsDelete /\ last'.byRole = "admin" /\ last'.id = last'.by)
             => (res' = Failure(400, <<"Cannot delete your own account">>) /\ users' = users)
       /\ (/\ last'.op \in {"guarded", "deleteUser"}
           /\ last'.op = "guarded" => (last'.route.authn = "auth" /\ last'.header = Bearer(held))
           /\ heldFrom.kind = "session" /\ heldFrom.id \notin DOMAIN users)
             => (res'.status = 401 /\ users' = users)]_vars

\* the account of testuser was deleted by the administrator, and its token is
\* refused on a route behind auth
C27_Witness ==
    /\ last.op = "guarded" /\ last.route.path = "/protected"
    /\ last.header = Bearer(held) /\ heldFrom = Session(2, 0)
    /\ 2 \notin DOMAIN users /\ 1 \in DOMAIN users
    /\ res = Failure(401, <<"User not found">>)

\* the administrator names their own id and stays
C27_OwnAccountKept ==
    /\ last.op = "deleteUser" /\ last.id = 1 /\ last.by = 1
    /\ res = Failure(400, <<"Cannot delete your own account">>) /\ 1 \in DOMAIN users

----------------------------------------------------------------------------
(* The slug of an updated post (under PostsSpec)                             *)

\* the latest request was a PUT that was answered 200 and changed the title
TitleChanged ==
    /\ last.op = "updatePost" /\ res.status = 200
    /\ posts[last.id].title # last.pre.title

\* C28: when PUT /api/posts/:id changes the title of a post, the slug is reset
\* and generated again by the pre-save hook: the stored slug is slugify(title)
\* of the new title.
C28_SlugFollowsTitle ==
    TitleChanged => posts[last.id].slug = slugify(Chars(posts[last.id].title))

\* what holds of the code: the title is assigned before it is compared, so the
\* slug is never reset and the post keeps the slug it had
C28_SlugKept ==
    (last.op = "updatePost" /\ res.status = 200)
        => posts[last.id].slug = last.pre.slug

----------------------------------------------------------------------------
(* POST /api/posts/:id/like: the handler loads the post with findById, looks *)
(* for a like of req.user, and saves the post with that like removed or with *)
(* a new one pushed; requests interleave between the load and the save.      *)

\* the likes of user by among likes
LikesOf(likes, by) == SelectSeq(likes, LAMBDA l : l = by)

\* post.likes.filter(like => like.user.toString() !== req.user._id.toString())
WithoutLikesOf(likes, by) == SelectSeq(likes, LAMBDA l : l # by)

\* save() after post.likes.push(...): the new element is appended to the stored
\* array ($push) and the version is incremented; the version is not compared
savePush(stored, doc, by) ==
    [threw |-> FALSE,
     post |-> [stored EXCEPT !.likes = Append(@, by), !.v = @ + 1]]

\* save() after post.likes = ...: the array is written whole ($set) where the
\* stored version is the loaded one, and the version is incremented; when
\* another save has changed the version the save throws VersionError
saveArray(stored, doc, likes) ==
    IF stored.v # doc.v THEN [threw |-> TRUE, post |-> stored]
    ELSE [threw |-> FALSE, post |-> [stored EXCEPT !.likes = likes, !.v = @ + 1]]

\* a like request between its findById and its save(): the client, the account
\* it is authenticated as, and the post it loaded
Like(c, by, doc) == [kind |-> "like", client |-> c, by |-> by, id |-> doc._id, doc |-> doc]

\* the record kept of the latest step of a like request: the stored likes before
\* the step, and whether other saves came between its load and its save
LikeStep(op, c, by, id, pre, alone) ==
    [op |-> op, client |-> c, by |-> by, id |-> id, pre |-> pre, alone |-> alone]

\* the users who like: testuser and moderator
Likers == {2, 3}

\* the saves of a post the model follows: the version of a post grows with every
\* save, and no request starts once the saves begun reach this number
MaxSaves == 4

LikeInit ==
    /\ users = GuardUsers
    /\ nextId = 4
    /\ now = 0
    /\ env = [JWT_SECRET |-> "", JWT_REFRESH_SECRET |-> "", JWT_EXPIRE |-> 0]
    /\ held = NoToken
    /\ heldFrom = NoProvenance
    /\ res = NoResult
    /\ last = LikeStep("init", 0, 0, 0, <<>>, TRUE)
    /\ consec = [i \in DOMAIN GuardUsers |-> NoStreak]
    /\ replaced = NoReplaced
    /\ posts = SeededPosts
    /\ pending = {}

\* the handler up to `await Post.findById(...)`
LikeLoad(c, by, id) ==
    /\ \A a \in pending : a.client # c
    /\ id \in DOMAIN posts
    /\ posts[id].v + Cardinality(pending) < MaxSaves
    /\ pending' = pending \cup {Like(c, by, posts[id])}
    /\ last' = LikeStep("likeLoad", c, by, id, posts[id].likes, TRUE)
    /\ res' = NoResult
    /\ UNCHANGED <<users, nextId, now, env, held, heldFrom, consec, replaced, posts>>

\* the handler from the search for an existing like to the response
LikeSave(a) ==
    LET stored == posts[a.id]
        existingLike == LikesOf(a.doc.likes, a.by) # <<>>
        s == IF existingLike
             THEN saveArray(stored, a.doc, WithoutLikesOf(a.doc.likes, a.by))
             ELSE savePush(stored, a.doc, a.by)
    IN
    /\ a \in pending
    /\ pending' = pending \ {a}
    /\ posts' = [posts EXCEPT ![a.id] = s.post]
    /\ res' = IF s.threw THEN Failure(500, <<"Server error processing like">>)
              ELSE Response(200, NoError, [liked |-> ~existingLike], NoToken, NoToken)
    /\ last' = LikeStep("likeSave", a.client, a.by, a.id, stored.likes, stored.v = a.doc.v)
    /\ UNCHANGED <<users, nextId, now, env, held, heldFrom, consec, replaced>>

LikeNext ==
    \/ \E c \in Clients, by \in Likers : LikeLoad(c, by, 1)
    \/ \E a \in pending : LikeSave(a)

LikeSpec == LikeInit /\ [][LikeNext]_vars

\* C29: every user appears at most once in the likes of a post, in every
\* reachable state and whatever the interleaving of concurrent like requests; a
\* like request of a user without a like adds one, of a user with a like removes
\* it.
C29_OneLikePerUser ==
    /\ \A id \in DOMAIN posts, by \in Likers : Len(LikesOf(posts[id].likes, by)) <= 1
    /\ (last.op = "likeSave" /\ res.status = 200)
          => Len(LikesOf(posts[last.id].likes, last.by))
                = 1 - Len(LikesOf(last.pre, last.by))

\* what holds of the code: a like request whose load and save no other save came
\* between toggles the like of its user and leaves the likes of the others
C29_TogglesWhenAlone ==
    (last.op = "likeSave" /\ last.alone)
        => /\ res.status = 200
           /\ Len(LikesOf(posts[last.id].likes, last.by))
                 = (IF LikesOf(last.pre, last.by) = <<>> THEN 1 ELSE 0)
           /\ WithoutLikesOf(posts[last.id].likes, last.by)
                 = WithoutLikesOf(last.pre, last.by)

----------------------------------------------------------------------------
(* GET /api/posts/:id behind optionalAuth: the post is loaded with its author *)
(* populated, an unpublished post is shown to its author only, and a view is  *)
(* counted for everybody but the author.                                      *)

\* post.author after .populate('author', ...): the account of the author, or null
\* when no account has that _id
Null == 0
populateAuthor(us, post) == findById(us, ObjectIdString(post.author))

\* !req.user || post.author._id.toString() !== req.user._id.toString(): reading
\* _id of a null author throws TypeError
notTheAuthor(us, post, reqUser) ==
    IF reqUser = NoUser THEN [threw |-> FALSE, value |-> TRUE]
    ELSE IF populateAuthor(us, post) = Null THEN [threw |-> TRUE, value |-> FALSE]
    ELSE [threw |-> FALSE,
          value |-> ObjectIdString(post.author) # ObjectIdString(reqUser._id)]

RetrieveFailed == Failure(500, <<"Server error retrieving post">>)

\* the views the model counts on a post: no GET is sent to a post that has them
MaxViews == 3

\* the response of GET /api/posts/:id and the posts it leaves
GetPostResult(ps, us, token, id, e, t, fault) ==
    LET reqUser == optionalAuth(HeaderOf(token), us, e, t, fault).user
        other == notTheAuthor(us, ps[id], reqUser)
    IN
    IF fault = "find" THEN [res |-> RetrieveFailed, posts |-> ps]
    ELSE IF id \notin DOMAIN ps
    THEN [res |-> Failure(404, <<"Post not found">>), posts |-> ps]
    ELSE IF ~ps[id].published /\ reqUser = NoUser
    THEN [res |-> Failure(404, <<"Post not found">>), posts |-> ps]
    ELSE IF other.threw THEN [res |-> RetrieveFailed, posts |-> ps]
    ELSE IF ~ps[id].published /\ other.value
    THEN [res |-> Failure(404, <<"Post not found">>), posts |-> ps]
    ELSE IF ~other.value
    THEN [res |-> Response(200, NoError, NoUser, NoToken, NoToken), posts |-> ps]
    ELSE IF fault = "save" THEN [res |-> RetrieveFailed, posts |-> ps]
    ELSE [res |-> Response(200, NoError, NoUser, NoToken, NoToken),
          posts |-> [ps EXCEPT ![id].views = @ + 1]]

\* the record kept of the latest GET of a post: the post as it was before (none
\* when there was no such post), the account optionalAuth set as req.user (by = 0:
\* none) and whether the account of the post's author was stored
GetRequest(id, pre, reqUser, authorStored, fault) ==
    [op |-> "getPost", id |-> id, pre |-> pre,
     by |-> IF reqUser = NoUser THEN 0 ELSE reqUser._id,
     authorStored |-> authorStored, fault |-> fault]

GetPost(id, fault) ==
    LET r == GetPostResult(posts, users, held, id, env, now, fault) IN
    /\ \A i \in DOMAIN posts : posts[i].views < MaxViews
    /\ posts' = r.posts
    /\ res' = r.res
    /\ last' = GetRequest(id, IF id \in DOMAIN posts THEN posts[id] ELSE NoPost,
                          optionalAuth(HeaderOf(held), users, env, now, fault).user,
                          id \in DOMAIN posts /\ populateAuthor(users, posts[id]) # Null,
                          fault)
    /\ replaced' = NoReplaced
    /\ UNCHANGED <<users, nextId, now, env, held, heldFrom, consec, pending>>

\* the posts of testuser: the published one of the tests and an unpublished one
ViewedPosts ==
    SeededPosts @@
    (2 :> [_id |-> 2, author |-> 2, title |-> "Updated Test Post",
           slug |-> slugify(Chars("Updated Test Post")),
           content |-> "This content has been updated", category |-> "cat1",
           published |-> FALSE, views |-> 0, likes |-> <<>>, v |-> 0])

ViewInit ==
    /\ users = GuardUsers
    /\ nextId = 4
    /\ now = 0
    /\ env = [JWT_SECRET |-> "", JWT_REFRESH_SECRET |-> "", JWT_EXPIRE |-> 0]
    /\ held = NoToken
    /\ heldFrom = NoProvenance
    /\ res = NoResult
    /\ last = TokenStep("init")
    /\ consec = [i \in DOMAIN GuardUsers |-> NoStreak]
    /\ replaced = NoReplaced
    /\ posts = ViewedPosts
    /\ pending = IssuedTokens(env)

\* the ids of GET: the two posts and a missing one
ViewIds == {1, 2, 3}

ViewNext ==
    \/ \E w \in pending : Present(w)
    \/ TokenGarbage
    \/ \E id \in ViewIds, f \in Faults \cup {"auth"} : GetPost(id, f)
    \/ \E i \in DeleteInputs : DeleteUser(i.id, i.fault)

ViewSpec == ViewInit /\ [][ViewNext]_vars

\* the latest request was a GET of a stored post during which the store answered
GotPost == last.op = "getPost" /\ last.pre # NoPost /\ last.fault = "none"

\* what the claim says of the latest GET: an unpublished post is answered 404
\* to everybody but its author, a view is counted for everybody but the author
ShownAsClaimed ==
    LET byAuthor == last.by = last.pre.author
        shown == last.pre.published \/ byAuthor
    IN
    /\ res.status = (IF shown THEN 200 ELSE 404)
    /\ posts[last.id].views = (IF shown /\ ~byAuthor THEN last.pre.views + 1
                               ELSE last.pre.views)

\* C30: GET /api/posts/:id shows an unpublished post only to its author,
\* everybody else, authenticated or not, is answered 404 and the views stay; a
\* post that is shown gets exactly one more view, unless the requester is its
\* author, and then the views stay.
C30_GetPost == GotPost => ShownAsClaimed

\* what holds of the code: the claim, for requests without req.user and for posts
\* whose author's account is stored; other requests are answered 500 and count
\* no view
C30_GetPostOfStoredAuthor ==
    GotPost =>
        IF last.by = 0 \/ last.authorStored THEN ShownAsClaimed
        ELSE res.status = 500 /\ posts[last.id].views = last.pre.views

====
